---- MODULE Spec2Model ----
(***************************************************************************)
(* Watermark-driven extraction of MySQL tables to the bronze layer          *)
(* (legacy_incremental_batch/extractors) and the strategy-driven ingestion  *)
(* into the warehouse (dev_environment/bigquery).                           *)
(*                                                                          *)
(* Timestamps are abstracted to 1..MaxTs, 0 stands for SQL NULL in a row    *)
(* and for pandas NaT in a watermark.  The source database is an            *)
(* environment: a query returns any set of rows that satisfies its WHERE    *)
(* clause (a LIMIT only removes rows from such a set).                      *)
(***************************************************************************)
EXTENDS Integers, FiniteSets, Sequences, TLC

\* ------------------------------------------------------------------ bounds
MaxTs == 3
MaxRuns == 3

\* ProductionBatchExtractor(max_workers=...) of the pooled phase
MaxWorkers == 2

Tables == {"Pie_Fac", "Alb_Cli"}
TsCols == {"updated_at", "created_at"}
NoCol == "None"
TsVals == 0..MaxTs

\* ------------------------------------------------------------ value model
\* last_timestamp values: None, a pandas Timestamp (kind "ts") or its
\* string form after a JSON round trip (kind "str"); val 0 is NaT / "NaT".
NoneVal == [kind |-> "none", val |-> 0]
Ts(v) == [kind |-> "ts", val |-> v]

\* json.dump(..., default=str): a Timestamp is written as its string
Str(x) == IF x.kind = "ts" THEN [kind |-> "str", val |-> x.val] ELSE x

\* Python truthiness of a last_timestamp value (`not last_watermark`)
Truthy(x) == x.kind # "none"

Absent == [present |-> FALSE, last_timestamp |-> NoneVal, last_extraction |-> 0,
           timestamp_column |-> NoCol, extraction_type |-> "none"]
EmptyDict == [Absent EXCEPT !.present = TRUE]
EmptyMap == [t \in Tables |-> Absent]

FileAbsent == [state |-> "absent", data |-> EmptyMap]
FileTruncated == [state |-> "truncated", data |-> EmptyMap]
FileOk(m) == [state |-> "ok", data |-> m]

\* self.watermarks.get(table_name, {}).get('last_timestamp')
GetLastTimestamp(wm, t) == IF wm[t].present THEN wm[t].last_timestamp ELSE NoneVal

SetMax(S) == CHOOSE x \in S : \A y \in S : y <= x

\* df[timestamp_col].min(): the earliest value of the frame
MinTimestamp(rows) ==
  IF rows \ {0} = {} THEN Ts(0)
  ELSE Ts(CHOOSE x \in rows \ {0} : \A y \in rows \ {0} : x <= y)

\* df[timestamp_col].max(): NULLs are skipped, all-NULL gives NaT
MaxTimestamp(rows) == IF rows \ {0} = {} THEN Ts(0) ELSE Ts(SetMax(rows \ {0}))

VARIABLES
  run,          \* number of extraction runs started (the wall clock of last_extraction)
  proc,         \* "idle" | "loaded" | "saving" | "saved"
  watermarks,   \* self.watermarks
  wmFile,       \* metadata/watermarks.json
  gcsAvailable, \* self.storage_client and self.bucket
  maxWorkers,   \* self.max_workers: tables in flight at a time
  plan,         \* the tables this program extracts in a run
  pc,           \* per table: position in extract_table_incremental
  bestCol,      \* per table: analysis['best_timestamp_column']
  df,           \* per table: timestamp values of the extracted rows
  isIncr,       \* per table: is_incremental
  artifact,     \* per table: "none" | "local" | "gcs" for this extraction
  uploadFailed, \* per table: upload_to_gcs returned None after an exception
  result,       \* per table: "none" | "success" | "failed"
  ingest,       \* per table: "none" | "ok" | "failed" in run_advanced_ingestion
  \* BatchExtractor.extract_all_tables (batch_only)
  allIdx,       \* index of the next table of the loop, 0 when the loop is not run
  allInput,     \* per table: what the source and the disk did in its iteration
  allResults,   \* per table: the entry of the returned results dict
  \* GCSToBigQueryWorker.apply_* (dev_environment/bigquery)
  strategy,     \* strategy['strategy'] of the table being ingested
  staging,      \* rows of the <table>__stg staging table, as a bag
  dest,         \* rows of the silver destination table, as a bag
  destExists,   \* the destination table has been created
  applyCount,   \* number of applications of the strategy so far
  applyRaised,  \* the last application raised
  destOnce,     \* the destination as the first application left it
  destBefore,   \* the destination as the last application found it
  \* the other programs of the repository, one record each
  doc,          \* IncrementalLoadingDocumenter: the table analysed and its analysis
  gcs,          \* the bucket's blobs under a table prefix and find_latest_gcs_file
  ing,          \* GCSToBigQueryWorker.run_advanced_ingestion: loop and results
  batch,        \* ProductionBatchExtractor: categorisation, plan and extractions
  srcTable,     \* a source table's rows and what get_incremental_data took of them
  conn          \* the source-database connections of the table operations

extractVars == <<run, proc, watermarks, wmFile, gcsAvailable, maxWorkers, plan,
                 pc, bestCol, df, isIncr, artifact, uploadFailed, result, ingest>>
allVars == <<allIdx, allInput, allResults>>
applyVars == <<strategy, staging, dest, destExists, applyCount, applyRaised, destOnce,
               destBefore>>

laterVars == <<doc, gcs, ing, batch, srcTable, conn>>

vars == <<extractVars, allVars, applyVars, laterVars>>

tableVars == <<pc, bestCol, df, isIncr, artifact, uploadFailed, result>>

\* ---------------------------------------------------------- watermark store
\* a load that answers an unusable file with an empty entry for every table
LoadWatermarksPlaceholder(f) ==
  IF f.state = "ok" THEN f.data ELSE [t \in Tables |-> EmptyDict]

\* load_watermarks: a missing or unparsable file gives {}
LoadWatermarks(f) == IF f.state = "ok" THEN f.data ELSE EmptyMap

\* json.dump(self.watermarks, f, indent=2, default=str)
JsonDump(wm) == [t \in Tables |->
                   [wm[t] EXCEPT !.last_timestamp = Str(@)]]

DictSetItemClobber(d, k, v) == [x \in Tables |-> IF x = k THEN v ELSE Absent]

\* self.watermarks[table_name] = value
DictSetItem(d, k, v) == [d EXCEPT ![k] = v]

ResetTables ==
  /\ pc = [t \in Tables |-> "pending"]
  /\ bestCol = [t \in Tables |-> NoCol]
  /\ df = [t \in Tables |-> {}]
  /\ isIncr = [t \in Tables |-> FALSE]
  /\ artifact = [t \in Tables |-> "none"]
  /\ uploadFailed = [t \in Tables |-> FALSE]
  /\ result = [t \in Tables |-> "none"]

\* the per-table state of a run that has not started any table
ResetTablesNext ==
  /\ pc' = [t \in Tables |-> "pending"]
  /\ bestCol' = [t \in Tables |-> NoCol]
  /\ df' = [t \in Tables |-> {}]
  /\ isIncr' = [t \in Tables |-> FALSE]
  /\ artifact' = [t \in Tables |-> "none"]
  /\ uploadFailed' = [t \in Tables |-> FALSE]
  /\ result' = [t \in Tables |-> "none"]

\* ----------------------------------------- BatchExtractor (batch_only) data
MaxRows == 2

\* sorted(tables) of get_all_tables
SortedTables == <<"Alb_Cli", "Pie_Fac">>

\* what an iteration meets: the step that raises (if any), the number of
\* rows the table returns, and the fate of the upload
UploadOutcomes == {"ok", "failed", "skipped"}
NoInput == [raiseAt |-> "none", rows |-> 0, upload |-> "skipped", seen |-> FALSE]
NoResult == [present |-> FALSE, success |-> FALSE, error |-> FALSE,
             reason |-> "none", records |-> 0, gcs_path |-> FALSE]

AllIdle ==
  /\ allIdx = 0
  /\ allInput = [t \in Tables |-> NoInput]
  /\ allResults = [t \in Tables |-> NoResult]

\* ------------------------------------------------ warehouse tables as bags
MaxKey == 1
MaxBag == 2
MaxApply == 2

\* the values of a key column: SQL NULL and the values 1..MaxKey
NullKey == 0
Keys == 0..MaxKey
Vals == {"a", "b"}
Days == {"load_day", "other_day"}
LoadDay == "load_day"

\* a row: the primary-key column, the other columns, and the day column
\* (_load_day in a staging table, the partition field in a destination)
Rows == [pk : Keys, val : Vals, day : Days]

EmptyBag == [r \in Rows |-> 0]

RECURSIVE SumOver(_, _)
SumOver(b, S) ==
  IF S = {} THEN 0
  ELSE LET r == CHOOSE x \in S : TRUE IN b[r] + SumOver(b, S \ {r})

\* the bags of at most n rows
RECURSIVE BagsUpTo(_)
BagsUpTo(n) ==
  IF n = 0 THEN {EmptyBag}
  ELSE LET smaller == BagsUpTo(n - 1)
       IN smaller \cup {[b EXCEPT ![r] = @ + 1] : b \in smaller, r \in Rows}

\* the rows of a staging table (loaded from the files of the load day)
StagedRows == {r \in Rows : r.day = LoadDay}

Strategies == {"incremental_merge", "replace_partition", "upsert_scd1"}

ApplyIdle ==
  /\ strategy = "none"
  /\ staging = EmptyBag
  /\ dest = EmptyBag
  /\ destExists = FALSE
  /\ applyCount = 0
  /\ applyRaised = FALSE
  /\ destOnce = EmptyBag
  /\ destBefore = EmptyBag

\* a program that is not run
Off == [pc |-> "off"]

LaterIdle ==
  doc = Off /\ gcs = Off /\ ing = Off /\ batch = Off /\ srcTable = Off /\ conn = Off

\* ------------------------------------------------------------------- Init
ExtractIdle ==
  /\ run = 0
  /\ proc = "idle"
  /\ watermarks = EmptyMap
  /\ wmFile = FileAbsent
  /\ gcsAvailable = FALSE
  /\ ingest = [t \in Tables |-> "none"]
  /\ ResetTables

\* IncrementalExtractor.main: one table per run, no pool
Init ==
  /\ ExtractIdle
  /\ maxWorkers = 1
  /\ plan \in {{t} : t \in Tables}
  /\ AllIdle
  /\ ApplyIdle
  /\ LaterIdle

\* ------------------------------------------------------------- extraction
IsIncrementalByColumn(col, last) == col # NoCol

IsIncremental(col, last) == col # NoCol /\ Truthy(last)

\* Rows the query can return (as values of the timestamp column; a table
\* with no timestamp column yields rows with no such value, written 0).
\* WHERE col > %s keeps only non-NULL values above the bound; a NaT bound
\* leaves the comparison to the driver, so any non-NULL rows may come back.
QueryRowsUnfiltered(col, last) ==
  IF col = NoCol THEN {{}, {0}} ELSE SUBSET TsVals

QueryRows(col, last) ==
  IF col = NoCol THEN {{}, {0}}
  ELSE IF ~Truthy(last) THEN SUBSET TsVals
  ELSE SUBSET ((last.val + 1)..MaxTs)

\* lines 208-213: the entry written for a table
NewEntry(col, rows, incr, now) ==
  [present |-> TRUE,
   last_timestamp |-> MaxTimestamp(rows),
   last_extraction |-> now,
   timestamp_column |-> col,
   extraction_type |-> IF incr THEN "incremental" ELSE "full"]

\* line 200: if timestamp_col and len(df) > 0 and timestamp_col in df.columns
UpdatesWatermark(col, rows) == col # NoCol /\ rows # {}

AllDone == \A t \in plan : pc[t] = "done"

InFlight == {t \in Tables : pc[t] \notin {"pending", "done"}}

\* extract_table_incremental returns: its locals go away, the outcome stays
Return(t, outcome) ==
  /\ pc' = [pc EXCEPT ![t] = "done"]
  /\ result' = [result EXCEPT ![t] = outcome]
  /\ bestCol' = [bestCol EXCEPT ![t] = NoCol]
  /\ df' = [df EXCEPT ![t] = {}]
  /\ isIncr' = [isIncr EXCEPT ![t] = FALSE]

\* load_watermarks() at process start, then run_batch_extraction begins
StartRun ==
  /\ proc = "idle"
  /\ run < MaxRuns
  /\ run' = run + 1
  /\ proc' = "loaded"
  /\ watermarks' = LoadWatermarks(wmFile)
  /\ gcsAvailable' \in BOOLEAN
  /\ ResetTablesNext
  /\ ingest' = [t \in Tables |-> "none"]
  /\ UNCHANGED <<wmFile, maxWorkers, plan>>
  /\ UNCHANGED <<allVars, applyVars, laterVars>>

\* a further extraction in the same process, without reloading
\* (scripts/test_incremental.py: extract, save_watermarks, extract again)
ContinueRun ==
  /\ proc = "saved"
  /\ run < MaxRuns
  /\ run' = run + 1
  /\ proc' = "loaded"
  /\ ResetTablesNext
  /\ ingest' = [t \in Tables |-> "none"]
  /\ UNCHANGED <<watermarks, wmFile, gcsAvailable, maxWorkers, plan>>
  /\ UNCHANGED <<allVars, applyVars, laterVars>>

\* a worker takes the table; analyze_table_structure picks
\* best_timestamp_column from the live data
Analyze(t) ==
  /\ proc = "loaded"
  /\ t \in plan
  /\ pc[t] = "pending"
  /\ Cardinality(InFlight) < maxWorkers
  /\ \E c \in TsCols \cup {NoCol} : bestCol' = [bestCol EXCEPT ![t] = c]
  /\ pc' = [pc EXCEPT ![t] = "extract"]
  /\ UNCHANGED <<run, proc, watermarks, wmFile, gcsAvailable, maxWorkers, plan, df,
                 isIncr, artifact, uploadFailed, result, ingest>>
  /\ UNCHANGED <<allVars, applyVars, laterVars>>

\* the query without the early return on an empty frame
QueryNoEarlyReturn(t) ==
  /\ proc = "loaded"
  /\ pc[t] = "extract"
  /\ LET col == bestCol[t]
         last == GetLastTimestamp(watermarks, t)
     IN \E rows \in QueryRows(col, last) :
          /\ df' = [df EXCEPT ![t] = rows]
          /\ isIncr' = [isIncr EXCEPT ![t] = IsIncremental(col, last)]
          /\ pc' = [pc EXCEPT ![t] = IF UpdatesWatermark(col, rows)
                                     THEN "wm_check" ELSE "save_local"]
          /\ UNCHANGED <<bestCol, result>>
  /\ UNCHANGED <<run, proc, watermarks, wmFile, gcsAvailable, maxWorkers, plan,
                 artifact, uploadFailed, ingest>>
  /\ UNCHANGED <<allVars, applyVars, laterVars>>

\* get_incremental_data, lines 165-197, and the early return of
\* extract_table_incremental on an empty frame (lines 327-329)
Query(t) ==
  /\ proc = "loaded"
  /\ pc[t] = "extract"
  /\ LET col == bestCol[t]
         last == GetLastTimestamp(watermarks, t)
     IN \E rows \in QueryRows(col, last) :
          IF rows = {}
          THEN Return(t, "success")
          ELSE /\ df' = [df EXCEPT ![t] = rows]
               /\ isIncr' = [isIncr EXCEPT ![t] = IsIncremental(col, last)]
               /\ pc' = [pc EXCEPT ![t] = IF UpdatesWatermark(col, rows)
                                          THEN "wm_check" ELSE "save_local"]
               /\ UNCHANGED <<bestCol, result>>
  /\ UNCHANGED <<run, proc, watermarks, wmFile, gcsAvailable, maxWorkers, plan,
                 artifact, uploadFailed, ingest>>
  /\ UNCHANGED <<allVars, applyVars, laterVars>>

\* line 205: if table_name not in self.watermarks
CheckEntry(t) ==
  /\ proc = "loaded"
  /\ pc[t] = "wm_check"
  /\ pc' = [pc EXCEPT ![t] = IF watermarks[t].present THEN "wm_update" ELSE "wm_insert"]
  /\ UNCHANGED <<run, proc, watermarks, wmFile, gcsAvailable, maxWorkers, plan,
                 bestCol, df, isIncr, artifact, uploadFailed, result, ingest>>
  /\ UNCHANGED <<allVars, applyVars, laterVars>>

\* line 206: self.watermarks[table_name] = {}
InsertEntry(t) ==
  /\ proc = "loaded"
  /\ pc[t] = "wm_insert"
  /\ watermarks' = DictSetItem(watermarks, t, EmptyDict)
  /\ pc' = [pc EXCEPT ![t] = "wm_update"]
  /\ UNCHANGED <<run, proc, wmFile, gcsAvailable, maxWorkers, plan, bestCol, df,
                 isIncr, artifact, uploadFailed, result, ingest>>
  /\ UNCHANGED <<allVars, applyVars, laterVars>>

\* lines 208-213: self.watermarks[table_name].update({...})
UpdateEntry(t) ==
  /\ proc = "loaded"
  /\ pc[t] = "wm_update"
  /\ watermarks' = DictSetItem(watermarks, t,
                     NewEntry(bestCol[t], df[t], isIncr[t], run))
  /\ pc' = [pc EXCEPT ![t] = "save_local"]
  /\ UNCHANGED <<run, proc, wmFile, gcsAvailable, maxWorkers, plan, bestCol, df,
                 isIncr, artifact, uploadFailed, result, ingest>>
  /\ UNCHANGED <<allVars, applyVars, laterVars>>

\* save_to_local_bronze (line 333)
SaveLocal(t) ==
  /\ proc = "loaded"
  /\ pc[t] = "save_local"
  /\ artifact' = [artifact EXCEPT ![t] = "local"]
  /\ pc' = [pc EXCEPT ![t] = "upload"]
  /\ UNCHANGED <<run, proc, watermarks, wmFile, gcsAvailable, maxWorkers, plan,
                 bestCol, df, isIncr, uploadFailed, result, ingest>>
  /\ UNCHANGED <<allVars, applyVars, laterVars>>

\* lines 337-341 with upload_to_gcs: skipped without a client, and an
\* exception of the upload is swallowed into a None path
Upload(t) ==
  /\ proc = "loaded"
  /\ pc[t] = "upload"
  /\ IF gcsAvailable
     THEN \/ /\ artifact' = [artifact EXCEPT ![t] = "gcs"]
             /\ UNCHANGED uploadFailed
          \/ /\ uploadFailed' = [uploadFailed EXCEPT ![t] = TRUE]
             /\ UNCHANGED artifact
     ELSE UNCHANGED <<artifact, uploadFailed>>
  /\ pc' = [pc EXCEPT ![t] = "metadata"]
  /\ UNCHANGED <<run, proc, watermarks, wmFile, gcsAvailable, maxWorkers, plan,
                 bestCol, df, isIncr, result, ingest>>
  /\ UNCHANGED <<allVars, applyVars, laterVars>>

\* save_extraction_metadata and return True (lines 345-350)
SaveMetadata(t) ==
  /\ proc = "loaded"
  /\ pc[t] = "metadata"
  /\ Return(t, "success")
  /\ UNCHANGED <<run, proc, watermarks, wmFile, gcsAvailable, maxWorkers, plan,
                 artifact, uploadFailed, ingest>>
  /\ UNCHANGED <<allVars, applyVars, laterVars>>

\* lines 352-354: any exception of analysis, query, local save or metadata
\* write makes extract_table_incremental return False
RaisingSteps == {"extract", "save_local", "metadata"}

Raise(t) ==
  /\ proc = "loaded"
  /\ \/ pc[t] \in RaisingSteps
     \/ t \in plan /\ pc[t] = "pending" /\ Cardinality(InFlight) < maxWorkers
  /\ Return(t, "failed")
  /\ UNCHANGED <<run, proc, watermarks, wmFile, gcsAvailable, maxWorkers, plan,
                 artifact, uploadFailed, ingest>>
  /\ UNCHANGED <<allVars, applyVars, laterVars>>

\* ------------------------------------------------------------- persistence
\* save_watermarks, line 154: open(watermark_file, 'w') truncates the file
SaveOpen ==
  /\ proc = "loaded"
  /\ AllDone
  /\ proc' = "saving"
  /\ wmFile' = FileTruncated
  /\ UNCHANGED <<run, watermarks, gcsAvailable, maxWorkers, plan, ingest>>
  /\ UNCHANGED tableVars
  /\ UNCHANGED <<allVars, applyVars, laterVars>>

\* line 155: json.dump writes the whole mapping
SaveDump ==
  /\ proc = "saving"
  /\ proc' = "saved"
  /\ wmFile' = FileOk(JsonDump(watermarks))
  /\ UNCHANGED <<run, watermarks, gcsAvailable, maxWorkers, plan, ingest>>
  /\ UNCHANGED tableVars
  /\ UNCHANGED <<allVars, applyVars, laterVars>>

\* lines 157-158: an exception while writing is only printed
SaveDumpFail ==
  /\ proc = "saving"
  /\ proc' = "saved"
  /\ UNCHANGED <<run, watermarks, wmFile, gcsAvailable, maxWorkers, plan, ingest>>
  /\ UNCHANGED tableVars
  /\ UNCHANGED <<allVars, applyVars, laterVars>>

\* the process stops (killed, or exits after its run); memory is lost
Crash ==
  /\ proc # "idle"
  /\ proc' = "idle"
  /\ watermarks' = EmptyMap
  /\ gcsAvailable' = FALSE
  /\ ResetTablesNext
  /\ ingest' = [t \in Tables |-> "none"]
  /\ UNCHANGED <<run, wmFile, maxWorkers, plan>>
  /\ UNCHANGED <<allVars, applyVars, laterVars>>

\* --------------------------------------------------------------- ingestion
\* run_advanced_ingestion, one table of the loop, after the extraction run:
\* the load_staging_from_uris / apply_* calls succeed or raise
Ingest(t) ==
  /\ proc = "saved"
  /\ t \in plan
  /\ ingest[t] = "none"
  /\ \E r \in {"ok", "failed"} : ingest' = [ingest EXCEPT ![t] = r]
  /\ UNCHANGED <<run, proc, watermarks, wmFile, gcsAvailable, maxWorkers, plan>>
  /\ UNCHANGED tableVars
  /\ UNCHANGED <<allVars, applyVars, laterVars>>

Next ==
  \/ StartRun
  \/ ContinueRun
  \/ \E t \in Tables : Analyze(t)
  \/ \E t \in Tables : Query(t)
  \/ \E t \in Tables : CheckEntry(t)
  \/ \E t \in Tables : InsertEntry(t)
  \/ \E t \in Tables : UpdateEntry(t)
  \/ \E t \in Tables : SaveLocal(t)
  \/ \E t \in Tables : Upload(t)
  \/ \E t \in Tables : SaveMetadata(t)
  \/ \E t \in Tables : Raise(t)
  \/ SaveOpen
  \/ SaveDump
  \/ SaveDumpFail
  \/ Crash
  \/ \E t \in Tables : Ingest(t)

Spec == Init /\ [][Next]_vars

\* -------------------------------------------------- the pooled phase alone
\* One run_batch_extraction whose tables are handed to a pool of
\* max_workers threads; the watermark file holds what earlier runs left.
EarlierEntries ==
  {Absent} \cup
  {[present |-> TRUE, last_timestamp |-> [kind |-> "str", val |-> 1],
    last_extraction |-> 0, timestamp_column |-> c, extraction_type |-> "full"] :
      c \in TsCols}

InitPool ==
  /\ run = MaxRuns - 1
  /\ proc = "idle"
  /\ watermarks = EmptyMap
  /\ wmFile \in {FileAbsent} \cup {FileOk(m) : m \in [Tables -> EarlierEntries]}
  /\ gcsAvailable = FALSE
  /\ maxWorkers = MaxWorkers
  /\ plan = Tables
  /\ ingest = [t \in Tables |-> "none"]
  /\ ResetTables
  /\ AllIdle
  /\ ApplyIdle
  /\ LaterIdle

NextPool ==
  \/ StartRun
  \/ \E t \in Tables : Analyze(t)
  \/ \E t \in Tables : Query(t)
  \/ \E t \in Tables : CheckEntry(t)
  \/ \E t \in Tables : InsertEntry(t)
  \/ \E t \in Tables : UpdateEntry(t)
  \/ \E t \in Tables : SaveLocal(t)
  \/ \E t \in Tables : Upload(t)
  \/ \E t \in Tables : SaveMetadata(t)
  \/ \E t \in Tables : Raise(t)
  \/ SaveOpen
  \/ SaveDump

SpecPool == InitPool /\ [][NextPool]_vars

\* ------------------------------------- BatchExtractor.extract_all_tables
\* the situations one iteration can meet
AllInputs ==
  {[raiseAt |-> "extract_table", rows |-> 0, upload |-> "skipped", seen |-> TRUE],
   [raiseAt |-> "none", rows |-> 0, upload |-> "skipped", seen |-> TRUE]}
  \cup {[raiseAt |-> "save_locally", rows |-> n, upload |-> "skipped", seen |-> TRUE] :
          n \in 1..MaxRows}
  \cup {[raiseAt |-> r, rows |-> n, upload |-> u, seen |-> TRUE] :
          r \in {"none", "save_metadata"}, n \in 1..MaxRows, u \in UploadOutcomes}

\* extract_table_with_upload: the result dict of one table
ExtractTableResult(inp) ==
  IF inp.raiseAt = "extract_table"
  THEN [NoResult EXCEPT !.present = TRUE, !.error = TRUE]
  ELSE IF inp.rows = 0
  THEN [NoResult EXCEPT !.present = TRUE, !.reason = "empty_table"]
  ELSE IF inp.raiseAt \in {"save_locally", "save_metadata"}
  THEN [NoResult EXCEPT !.present = TRUE, !.error = TRUE]
  ELSE [present |-> TRUE, success |-> TRUE, error |-> FALSE, reason |-> "none",
        records |-> inp.rows, gcs_path |-> (inp.upload = "ok")]

\* one iteration of the loop of extract_all_tables
ExtractTableWithUpload(t) ==
  /\ allIdx \in 1..Len(SortedTables)
  /\ t = SortedTables[allIdx]
  /\ \E inp \in AllInputs :
       /\ allInput' = [allInput EXCEPT ![t] = inp]
       /\ allResults' = [allResults EXCEPT ![t] = ExtractTableResult(inp)]
  /\ allIdx' = allIdx + 1
  /\ UNCHANGED <<extractVars, applyVars, laterVars>>

\* r.get('success', False) of the summary and of test_mysql_extraction
MarkedFailed(res) == ~res.success

InitAll ==
  /\ ExtractIdle
  /\ maxWorkers = 1
  /\ plan = {}
  /\ allIdx = 1
  /\ allInput = [t \in Tables |-> NoInput]
  /\ allResults = [t \in Tables |-> NoResult]
  /\ ApplyIdle
  /\ LaterIdle

NextAll == \E t \in Tables : ExtractTableWithUpload(t)

SpecAll == InitAll /\ [][NextAll]_vars

\* ---------------------------------------- GCSToBigQueryWorker strategies
\* ON T.pk = S.pk: a comparison with NULL is never true
Matches(t, s) == t.pk # NullKey /\ s.pk # NullKey /\ t.pk = s.pk

SMatches(S, t) == {s \in Rows : S[s] > 0 /\ Matches(t, s)}

\* a MERGE fails when a target row matches more than one source row
MergeRaises(T, S) ==
  \E t \in Rows : T[t] > 0 /\ SumOver(S, SMatches(S, t)) > 1

\* an update that leaves the day column of the matched row as it was
UpdatedKeepDay(S, t) ==
  IF SMatches(S, t) = {} THEN t
  ELSE LET s == CHOOSE x \in SMatches(S, t) : TRUE
       IN [pk |-> t.pk, val |-> s.val, day |-> t.day]

\* WHEN MATCHED THEN UPDATE SET * EXCEPT(pk)
Updated(S, t) ==
  IF SMatches(S, t) = {} THEN t
  ELSE LET s == CHOOSE x \in SMatches(S, t) : TRUE
       IN [pk |-> t.pk, val |-> s.val, day |-> s.day]

\* the MERGE statement of apply_incremental_merge and apply_upsert_scd1
Merge(T, S) ==
  [r \in Rows |->
     SumOver(T, {t \in Rows : T[t] > 0 /\ Updated(S, t) = r})
     + (IF \E t \in Rows : T[t] > 0 /\ Matches(t, r) THEN 0 ELSE S[r])]

\* the INSERT without the DELETE before it
ReplacePartitionNoDelete(T, S) ==
  [r \in Rows |->
     IF r.day = LoadDay
     THEN T[r] + SumOver(S, {s \in Rows : s.pk = r.pk /\ s.val = r.val})
     ELSE T[r]]

\* DELETE ... WHERE partition_field = DATE(load_day), then
\* INSERT ... SELECT S.* EXCEPT(_load_day), DATE(load_day)
ReplacePartition(T, S) ==
  [r \in Rows |->
     IF r.day = LoadDay
     THEN SumOver(S, {s \in Rows : s.pk = r.pk /\ s.val = r.val})
     ELSE T[r]]

Applied(newDest, raised) ==
  /\ applyCount < MaxApply
  /\ destExists' = TRUE
  /\ dest' = newDest
  /\ applyRaised' = (applyRaised \/ raised)
  /\ applyCount' = applyCount + 1
  /\ destOnce' = IF applyCount = 0 THEN newDest ELSE destOnce
  /\ destBefore' = dest
  /\ UNCHANGED <<strategy, staging, extractVars, allVars, laterVars>>

ApplyIncrementalMerge ==
  /\ strategy = "incremental_merge"
  /\ IF MergeRaises(dest, staging)
     THEN Applied(dest, TRUE)
     ELSE Applied(Merge(dest, staging), FALSE)

ApplyUpsertScd1 ==
  /\ strategy = "upsert_scd1"
  /\ IF MergeRaises(dest, staging)
     THEN Applied(dest, TRUE)
     ELSE Applied(Merge(dest, staging), FALSE)

ApplyReplacePartition ==
  /\ strategy = "replace_partition"
  /\ Applied(ReplacePartition(dest, staging), FALSE)

InitApply ==
  /\ ExtractIdle
  /\ maxWorkers = 1
  /\ plan = {}
  /\ AllIdle
  /\ strategy \in Strategies
  /\ staging \in {b \in BagsUpTo(MaxBag) : \A r \in Rows : b[r] > 0 => r \in StagedRows}
  /\ dest \in BagsUpTo(MaxBag)
  /\ destExists \in BOOLEAN
  /\ ~destExists => dest = EmptyBag
  /\ applyCount = 0
  /\ applyRaised = FALSE
  /\ destOnce = dest
  /\ destBefore = dest
  /\ LaterIdle

NextApply ==
  \/ ApplyIncrementalMerge
  \/ ApplyUpsertScd1
  \/ ApplyReplacePartition

SpecApply == InitApply /\ [][NextApply]_vars

\* --------------------------------------- IncrementalLoadingDocumenter
\* Names are sequences of characters, so that lower() and `in` are computed.
MaxCols == 3

\* the mapping of str.lower() on the ASCII letters
UpperToLower ==
  LET upper == <<"A", "B", "C", "D", "E", "F", "G", "H", "I", "J", "K", "L", "M", "N", "O", "P", "Q", "R", "S", "T", "U", "V", "W", "X", "Y", "Z">>
      lower == <<"a", "b", "c", "d", "e", "f", "g", "h", "i", "j", "k", "l", "m", "n", "o", "p", "q", "r", "s", "t", "u", "v", "w", "x", "y", "z">>
  IN [c \in {upper[i] : i \in 1..Len(upper)} |->
        lower[CHOOSE i \in 1..Len(upper) : upper[i] = c]]

\* str.lower()
Lower(s) ==
  [i \in 1..Len(s) |-> IF s[i] \in DOMAIN UpperToLower THEN UpperToLower[s[i]] ELSE s[i]]

\* k in s
Contains(k, s) ==
  \E i \in 1..(Len(s) - Len(k) + 1) : \A j \in 1..Len(k) : s[i + j - 1] = k[j]

\* any(keyword in s.lower() for keyword in keywords)
HasKeyword(keywords, s) ==
  LET lowered == Lower(s) IN \E k \in keywords : Contains(k, lowered)

\* self.timestamp_patterns
timestamp_patterns ==
  {<<"c", "r", "e", "a", "t", "e", "d", "_", "a", "t">>,
   <<"u", "p", "d", "a", "t", "e", "d", "_", "a", "t">>,
   <<"m", "o", "d", "i", "f", "i", "e", "d", "_", "a", "t">>,
   <<"l", "a", "s", "t", "_", "m", "o", "d", "i", "f", "i", "e", "d">>,
   <<"l", "a", "s", "t", "_", "u", "p", "d", "a", "t", "e">>,
   <<"c", "r", "e", "a", "t", "e", "d", "_", "d", "a", "t", "e">>,
   <<"u", "p", "d", "a", "t", "e", "d", "_", "d", "a", "t", "e">>,
   <<"m", "o", "d", "i", "f", "i", "c", "a", "t", "i", "o", "n", "_", "d", "a", "t", "e">>,
   <<"m", "o", "d", "i", "f", "y", "_", "d", "a", "t", "e">>,
   <<"f", "e", "c", "h", "a", "_", "m", "o", "d", "i", "f", "i", "c", "a", "c", "i", "o", "n">>,
   <<"f", "e", "c", "h", "a", "_", "c", "r", "e", "a", "c", "i", "o", "n">>,
   <<"f", "e", "c", "h", "a", "_", "a", "c", "t", "u", "a", "l", "i", "z", "a", "c", "i", "o", "n">>,
   <<"t", "i", "m", "e", "s", "t", "a", "m", "p">>,
   <<"d", "a", "t", "e", "_", "c", "r", "e", "a", "t", "e", "d">>,
   <<"d", "a", "t", "e", "_", "m", "o", "d", "i", "f", "i", "e", "d">>,
   <<"d", "a", "t", "e", "_", "u", "p", "d", "a", "t", "e", "d">>,
   <<"c", "r", "e", "a", "t", "e", "_", "t", "i", "m", "e">>,
   <<"u", "p", "d", "a", "t", "e", "_", "t", "i", "m", "e">>,
   <<"m", "o", "d", "_", "t", "i", "m", "e">>,
   <<"c", "h", "a", "n", "g", "e", "_", "d", "a", "t", "e">>,
   <<"i", "n", "s", "e", "r", "t", "_", "d", "a", "t", "e">>,
   <<"i", "n", "s", "e", "r", "t", "_", "t", "i", "m", "e">>,
   <<"c", "h", "a", "n", "g", "e", "d", "_", "o", "n">>,
   <<"m", "o", "d", "i", "f", "i", "e", "d", "_", "o", "n">>}

TimestampTypes == {<<"t", "i", "m", "e", "s", "t", "a", "m", "p">>, <<"d", "a", "t", "e", "t", "i", "m", "e">>, <<"d", "a", "t", "e">>}
ModificationKeywords == {<<"u", "p", "d", "a", "t", "e", "d">>, <<"m", "o", "d", "i", "f", "i", "e", "d">>, <<"l", "a", "s", "t", "_", "m", "o", "d", "i", "f", "i", "e", "d">>, <<"u", "p", "d", "a", "t", "e", "_", "t", "i", "m", "e">>}
CreationKeywords == {<<"c", "r", "e", "a", "t", "e", "d">>, <<"i", "n", "s", "e", "r", "t">>, <<"c", "r", "e", "a", "t", "e", "_", "t", "i", "m", "e">>}
ConfigKeywords == {<<"c", "o", "n", "f", "i", "g">>, <<"t", "i", "p", "o", "s">>, <<"e", "s", "t", "a", "d", "o", "s">>, <<"c", "a", "t", "e", "g", "o", "r", "i", "a", "s">>}
HistoryKeywords == {<<"h", "i", "s">>, <<"h", "i", "s", "t">>, <<"l", "o", "g">>, <<"a", "u", "d", "i", "t">>}
TransactionKeywords == {<<"f", "a", "c">>, <<"a", "l", "b">>, <<"p", "e", "d">>, <<"m", "o", "v">>}

\* recommended_watermark = None
NoneName == <<>>

\* rows of INFORMATION_SCHEMA.COLUMNS: COLUMN_NAME, DATA_TYPE, COLUMN_KEY, EXTRA
DocColumns ==
  {[name |-> <<"i", "d">>, data_type |-> <<"i", "n", "t">>, key |-> "PRI", extra |-> <<"a", "u", "t", "o", "_", "i", "n", "c", "r", "e", "m", "e", "n", "t">>],
   [name |-> <<"c", "o", "d">>, data_type |-> <<"v", "a", "r", "c", "h", "a", "r">>, key |-> "PRI", extra |-> <<>>],
   [name |-> <<"U", "p", "d", "a", "t", "e", "d", "_", "A", "t">>, data_type |-> <<"d", "a", "t", "e", "t", "i", "m", "e">>, key |-> "", extra |-> <<>>],
   [name |-> <<"c", "r", "e", "a", "t", "e", "d", "_", "a", "t">>, data_type |-> <<"t", "i", "m", "e", "s", "t", "a", "m", "p">>, key |-> "MUL", extra |-> <<>>],
   [name |-> <<"f", "_", "f", "e", "c", "h", "a">>, data_type |-> <<"d", "a", "t", "e">>, key |-> "", extra |-> <<>>],
   [name |-> <<"M", "O", "D", "I", "F", "Y", "_", "D", "A", "T", "E">>, data_type |-> <<"v", "a", "r", "c", "h", "a", "r">>, key |-> "", extra |-> <<>>],
   [name |-> <<"l", "a", "s", "t", "_", "m", "o", "d", "i", "f", "i", "e", "d">>, data_type |-> <<"v", "a", "r", "c", "h", "a", "r">>, key |-> "", extra |-> <<>>],
   [name |-> <<"i", "m", "p", "o", "r", "t", "e">>, data_type |-> <<"d", "e", "c", "i", "m", "a", "l">>, key |-> "", extra |-> <<>>]}

\* the column lists of a table: distinct names, in ORDINAL_POSITION order
RECURSIVE ColumnLists(_)
ColumnLists(n) ==
  IF n = 0 THEN {<<>>}
  ELSE LET shorter == ColumnLists(n - 1)
       IN shorter \cup
          {Append(cols, c) : cols \in {x \in shorter : Len(x) = n - 1},
                             c \in DocColumns}

DocTables ==
  {<<"P", "i", "e", "_", "F", "a", "c">>,
   <<"H", "i", "s", "_", "M", "o", "v">>,
   <<"T", "i", "p", "o", "s", "_", "L", "o", "g">>,
   <<"c", "l", "i", "e", "n", "t", "e", "s">>,
   <<"C", "o", "n", "f", "i", "g", "_", "E", "s", "t", "a", "d", "o", "s">>}

\* data_type.lower() in ['timestamp', 'datetime', 'date']
IsTimestampType(data_type) == Lower(data_type) \in TimestampTypes

\* the pattern loop: pattern in col_name.lower()
MatchesPattern(col_name) ==
  LET col_lower == Lower(col_name)
  IN \E pattern \in timestamp_patterns : Contains(pattern, col_lower)

\* one iteration of the column loop without the duplicate check
AppendTimestampNoCheck(acc, col) ==
  LET byType == IF IsTimestampType(col.data_type)
                THEN Append(acc, [column |-> col.name, detection_method |-> "type_based"])
                ELSE acc
  IN IF MatchesPattern(col.name)
     THEN Append(byType, [column |-> col.name, detection_method |-> "name_pattern"])
     ELSE byType

\* one iteration of the column loop, for timestamp_columns
AppendTimestamp(acc, col) ==
  LET byType == IF IsTimestampType(col.data_type)
                THEN Append(acc, [column |-> col.name, detection_method |-> "type_based"])
                ELSE acc
  IN IF /\ MatchesPattern(col.name)
        /\ ~\E i \in 1..Len(byType) : byType[i].column = col.name
     THEN Append(byType, [column |-> col.name, detection_method |-> "name_pattern"])
     ELSE byType

RECURSIVE TimestampColumns(_)
TimestampColumns(cols) ==
  IF cols = <<>> THEN <<>>
  ELSE AppendTimestamp(TimestampColumns(SubSeq(cols, 1, Len(cols) - 1)), cols[Len(cols)])

PrimaryKeys(cols) == SelectSeq(cols, LAMBDA c : c.key = "PRI")

AutoIncrementColumns(cols) ==
  SelectSeq(cols, LAMBDA c : Contains(<<"a", "u", "t", "o", "_", "i", "n", "c", "r", "e", "m", "e", "n", "t">>,
                                    Lower(c.extra)))

\* positions of the timestamp columns a keyword loop stops at
KeywordPositions(keywords, ts_cols) ==
  {i \in 1..Len(ts_cols) : HasKeyword(keywords, ts_cols[i].column)}

FirstOf(S) == CHOOSE i \in S : \A j \in S : i <= j

\* the three searches, creation names searched before modification names
WatermarkPositionCreationFirst(ts_cols) ==
  IF KeywordPositions(CreationKeywords, ts_cols) # {}
  THEN FirstOf(KeywordPositions(CreationKeywords, ts_cols))
  ELSE IF KeywordPositions(ModificationKeywords, ts_cols) # {}
  THEN FirstOf(KeywordPositions(ModificationKeywords, ts_cols))
  ELSE 1

\* the three searches for recommended_watermark: the position found
WatermarkPosition(ts_cols) ==
  IF KeywordPositions(ModificationKeywords, ts_cols) # {}
  THEN FirstOf(KeywordPositions(ModificationKeywords, ts_cols))
  ELSE IF KeywordPositions(CreationKeywords, ts_cols) # {}
  THEN FirstOf(KeywordPositions(CreationKeywords, ts_cols))
  ELSE 1

\* a search that may stop at any column of the winning class
WatermarkChoicesAnyOrder(ts_cols) ==
  IF ts_cols = <<>> THEN {NoneName}
  ELSE IF KeywordPositions(ModificationKeywords, ts_cols) # {}
  THEN {ts_cols[i].column : i \in KeywordPositions(ModificationKeywords, ts_cols)}
  ELSE IF KeywordPositions(CreationKeywords, ts_cols) # {}
  THEN {ts_cols[i].column : i \in KeywordPositions(CreationKeywords, ts_cols)}
  ELSE {ts_cols[i].column : i \in 1..Len(ts_cols)}

\* the values recommended_watermark can end with: the loops run over lists
WatermarkChoices(ts_cols) ==
  IF ts_cols = <<>> THEN {NoneName}
  ELSE {ts_cols[WatermarkPosition(ts_cols)].column}

TimestampScore(ts_cols) ==
  IF ts_cols = <<>> THEN 0
  ELSE 50 + (IF KeywordPositions(ModificationKeywords, ts_cols) # {} THEN 30
             ELSE IF KeywordPositions(CreationKeywords, ts_cols) # {} THEN 20
             ELSE 10)

AutoIncrementScore(auto_increment_cols) ==
  IF auto_increment_cols # <<>> THEN 25 ELSE 0

\* the primary-key branch with the composite case scored as a single key
PrimaryKeyScoreFlat(primary_keys) ==
  IF Len(primary_keys) >= 1 THEN 15 ELSE 0 - 20

PrimaryKeyScore(primary_keys) ==
  IF Len(primary_keys) = 1 THEN 15
  ELSE IF Len(primary_keys) > 1 THEN 5
  ELSE 0 - 20

TableNameScore(table_name) ==
    (IF HasKeyword(ConfigKeywords, table_name) THEN 0 - 15 ELSE 0)
  + (IF HasKeyword(HistoryKeywords, table_name) THEN 20 ELSE 0)
  + (IF HasKeyword(TransactionKeywords, table_name) THEN 15 ELSE 0)

IncrementalScore(table_name, ts_cols, primary_keys, auto_increment_cols) ==
    TimestampScore(ts_cols)
  + AutoIncrementScore(auto_increment_cols)
  + PrimaryKeyScore(primary_keys)
  + TableNameScore(table_name)

\* the bands with the second threshold moved
LoadingStrategyShifted(score) ==
  IF score >= 70 THEN "INCREMENTAL_PREFERRED"
  ELSE IF score >= 50 THEN "INCREMENTAL_POSSIBLE"
  ELSE IF score >= 20 THEN "INCREMENTAL_CHALLENGING"
  ELSE "FULL_REPLACE"

LoadingStrategy(score) ==
  IF score >= 70 THEN "INCREMENTAL_PREFERRED"
  ELSE IF score >= 40 THEN "INCREMENTAL_POSSIBLE"
  ELSE IF score >= 20 THEN "INCREMENTAL_CHALLENGING"
  ELSE "FULL_REPLACE"

Confidence(score) ==
  IF score >= 70 THEN "HIGH"
  ELSE IF score >= 40 THEN "MEDIUM"
  ELSE IF score >= 20 THEN "MEDIUM"
  ELSE "HIGH"

\* _analyze_columns_for_incremental with _determine_loading_strategy
AnalyzeColumns(table_name, cols, watermark) ==
  LET ts_cols == TimestampColumns(cols)
      score == IncrementalScore(table_name, ts_cols, PrimaryKeys(cols),
                                AutoIncrementColumns(cols))
  IN [timestamp_columns |-> ts_cols,
      primary_keys |-> PrimaryKeys(cols),
      auto_increment_columns |-> AutoIncrementColumns(cols),
      loading_strategy |-> LoadingStrategy(score),
      confidence |-> Confidence(score),
      incremental_score |-> score,
      recommended_watermark |-> watermark]

\* the dict returned by the except branch
ErrorAnalysis ==
  [timestamp_columns |-> <<>>, primary_keys |-> <<>>, auto_increment_columns |-> <<>>,
   loading_strategy |-> "ERROR", confidence |-> "LOW", incremental_score |-> 0,
   recommended_watermark |-> NoneName]

\* what the catalog does: "ok", "missing" (the table is not there: no status
\* row, COUNT(*) fails inside the inner try, no column rows), "query_error"
\* (a statement of the outer try raises), "connect_error" (no connection)
\* the columns the catalog returns
FetchedColumns(lookup, cols) == IF lookup = "ok" THEN cols ELSE <<>>

\* analyze_table_for_incremental_loading
Analyzed(lookup, table_name, cols, watermark) ==
  IF lookup = "query_error" THEN ErrorAnalysis
  ELSE AnalyzeColumns(table_name, FetchedColumns(lookup, cols), watermark)

AnalyzeTable ==
  /\ doc.pc = "ready"
  /\ IF doc.lookup = "connect_error"
     THEN doc' = [doc EXCEPT !.pc = "raised"]
     ELSE \E w \in WatermarkChoices(TimestampColumns(FetchedColumns(doc.lookup, doc.cols))) :
            doc' = [doc EXCEPT !.pc = "analyzed",
                               !.analysis = Analyzed(doc.lookup, doc.table, doc.cols, w)]
  /\ UNCHANGED <<extractVars, allVars, applyVars, gcs, ing, batch, srcTable, conn>>

\* a second evaluation of the same table
AnalyzeAgain ==
  /\ doc.pc = "analyzed"
  /\ doc.lookup = "ok"
  /\ \E w \in WatermarkChoices(TimestampColumns(doc.cols)) :
       doc' = [doc EXCEPT !.pc = "again",
                          !.again = Analyzed(doc.lookup, doc.table, doc.cols, w)]
  /\ UNCHANGED <<extractVars, allVars, applyVars, gcs, ing, batch, srcTable, conn>>

InitDoc ==
  /\ ExtractIdle
  /\ maxWorkers = 1
  /\ plan = {}
  /\ AllIdle
  /\ ApplyIdle
  /\ gcs = Off /\ ing = Off /\ batch = Off /\ srcTable = Off /\ conn = Off
  /\ \E table \in DocTables, lookup \in {"ok", "missing", "query_error", "connect_error"} :
     \E cols \in IF lookup = "ok"
                 THEN {c \in ColumnLists(MaxCols) :
                         \A i, j \in 1..Len(c) :
                           i # j => Lower(c[i].name) # Lower(c[j].name)}
                 ELSE {<<>>} :
       doc = [pc |-> "ready", table |-> table, lookup |-> lookup, cols |-> cols,
              analysis |-> [ErrorAnalysis EXCEPT !.loading_strategy = "none"],
              again |-> [ErrorAnalysis EXCEPT !.loading_strategy = "none"]]

NextDoc == AnalyzeTable \/ AnalyzeAgain

SpecDoc == InitDoc /\ [][NextDoc]_vars

\* ------------------------------------------------ blobs of a table in GCS
MaxClock == 4

\* ord(c), for the characters of a blob name
Ord(c) ==
  LET code_order == <<".", "/", "0", "1", "2", "3", "4", "5", "6", "7", "8", "9", "=", "A", "B", "C", "D", "E", "F", "G", "H", "I", "J", "K", "L", "M", "N", "O", "P", "Q", "R", "S", "T", "U", "V", "W", "X", "Y", "Z", "_", "a", "b", "c", "d", "e", "f", "g", "h", "i", "j", "k", "l", "m", "n", "o", "p", "q", "r", "s", "t", "u", "v", "w", "x", "y", "z">>
  IN CHOOSE i \in 1..Len(code_order) : code_order[i] = c

\* a < b on str
LexLess(a, b) ==
  LET shorter == IF Len(a) < Len(b) THEN Len(a) ELSE Len(b)
      differ == {i \in 1..shorter : a[i] # b[i]}
  IN IF differ = {} THEN Len(a) < Len(b)
     ELSE LET first == CHOOSE i \in differ : \A j \in differ : i <= j
          IN Ord(a[first]) < Ord(b[first])

\* strftime of a two-digit field
TwoDigits(n) ==
  LET digits == <<"0", "1", "2", "3", "4", "5", "6", "7", "8", "9">>
  IN <<digits[(n \div 10) + 1], digits[(n % 10) + 1]>>

\* The instants at which runs happen: two a day, at 08:00:00 and 18:00:00,
\* from 2024-06-09 on.
\* datetime.now().strftime("%Y/%m/%d")
DateStr(at) ==
  <<"2", "0", "2", "4", "/", "0", "6", "/">> \o TwoDigits(9 + ((at - 1) \div 2))

\* datetime.now().strftime("%Y%m%d_%H%M%S")
TimestampStr(at) ==
  <<"2", "0", "2", "4", "0", "6">> \o TwoDigits(9 + ((at - 1) \div 2)) \o <<"_">>
  \o TwoDigits(8 + 10 * ((at - 1) % 2)) \o <<"0", "0", "0", "0">>

ExtractionTypes == {<<"f", "u", "l", "l">>, <<"i", "n", "c", "r", "e", "m", "e", "n", "t", "a", "l">>, <<"b", "a", "t", "c", "h">>}

GcsTable == <<"P", "i", "e", "_", "F", "a", "c">>

\* bronze/<db>/<table>/
Prefix(table_name) == <<"b", "r", "o", "n", "z", "e", "/", "p", "k", "_", "g", "e", "s", "t", "_", "x", "e", "r", "/">> \o table_name \o <<"/">>

\* the blob path of upload_to_gcs
BlobPath(table_name, extraction_type, at) ==
  Prefix(table_name) \o <<"d", "a", "t", "e", "=">> \o DateStr(at) \o <<"/">>
  \o table_name \o <<"_">> \o extraction_type \o <<"_">> \o TimestampStr(at)
  \o <<".", "p", "a", "r", "q", "u", "e", "t">>

\* sorted(parquet_blobs, key=lambda x: x.name)[-1]
LatestBlob(blobs) ==
  CHOOSE b \in blobs : \A other \in blobs : ~LexLess(b.name, other.name)

\* an extractor run uploads its artifact; `at` is the run's timestamp
UploadBlob ==
  /\ gcs.pc = "uploading"
  /\ gcs.clock <= MaxClock
  /\ \E extraction_type \in ExtractionTypes :
       gcs' = [gcs EXCEPT
                 !.blobs = @ \cup {[name |-> BlobPath(GcsTable, extraction_type, gcs.clock),
                                    at |-> gcs.clock]},
                 !.clock = @ + 1]
  /\ UNCHANGED <<extractVars, allVars, applyVars, doc, ing, batch, srcTable, conn>>

\* time passes without a run
SkipInstant ==
  /\ gcs.pc = "uploading"
  /\ gcs.clock <= MaxClock
  /\ gcs' = [gcs EXCEPT !.clock = @ + 1]
  /\ UNCHANGED <<extractVars, allVars, applyVars, doc, ing, batch, srcTable, conn>>

\* find_latest_gcs_file
FindLatestGcsFile ==
  /\ gcs.pc = "uploading"
  /\ gcs' = [gcs EXCEPT !.pc = "found",
                        !.latest = IF gcs.blobs = {} THEN <<>>
                                   ELSE LatestBlob(gcs.blobs).name]
  /\ UNCHANGED <<extractVars, allVars, applyVars, doc, ing, batch, srcTable, conn>>

\* the prefix list_gcs_uris_for_day lists; `day` is the day of June 2024
DayPrefix(table_name, day) ==
  Prefix(table_name) \o <<"y", "e", "a", "r", "=", "2", "0", "2", "4", "/">>
  \o <<"m", "o", "n", "t", "h", "=", "0", "6", "/">>
  \o <<"d", "a", "y", "=">> \o TwoDigits(day) \o <<"/">>

\* list_gcs_uris_for_day, as run_advanced_ingestion calls it for one day:
\* the blobs whose name starts with the day prefix and ends with .parquet
ListGcsUrisForDay ==
  /\ gcs.pc = "uploading"
  /\ \E day \in 9..(9 + (MaxClock \div 2)) :
       LET prefix == DayPrefix(GcsTable, day)
           suffix == <<".", "p", "a", "r", "q", "u", "e", "t">>
           startswith(name) == /\ Len(name) >= Len(prefix)
                               /\ SubSeq(name, 1, Len(prefix)) = prefix
           endswith(name) == /\ Len(name) >= Len(suffix)
                             /\ SubSeq(name, Len(name) - Len(suffix) + 1, Len(name)) = suffix
       IN gcs' = [gcs EXCEPT
                    !.pc = "listed",
                    !.day = day,
                    !.uris = {b.name : b \in {x \in gcs.blobs :
                                startswith(x.name) /\ endswith(x.name)}}]
  /\ UNCHANGED <<extractVars, allVars, applyVars, doc, ing, batch, srcTable, conn>>

InitGcs ==
  /\ ExtractIdle
  /\ maxWorkers = 1
  /\ plan = {}
  /\ AllIdle
  /\ ApplyIdle
  /\ doc = Off /\ ing = Off /\ batch = Off /\ srcTable = Off /\ conn = Off
  /\ gcs = [pc |-> "uploading", clock |-> 1, blobs |-> {}, latest |-> <<>>,
            day |-> 0, uris |-> {}]

NextGcs == UploadBlob \/ SkipInstant \/ FindLatestGcsFile \/ ListGcsUrisForDay

SpecGcs == InitGcs /\ [][NextGcs]_vars

\* ------------------------------------------- ProductionBatchExtractor
\* COUNT(*) of a table: empty, small, and around the two plan thresholds
RowCounts == {0, 1, 50000, 50001, 100000, 100001}

\* max_full_table_size as the callers pass it
MaxFullTableSizes == {50000, 100000}

\* the row count above which extract_table_safe limits a full extraction
LargeTableRows == 100000

\* extraction_config.get('large_table_limit', 50000)
LargeTableLimit == 50000

\* limit=None
NoLimit == 0

\* what a table is like in the source database
\*   describeFails: DESCRIBE or COUNT(*) raises in categorize_tables
\*   hasTs:         some column type contains timestamp / datetime / date
\*   hasData:       MAX(column) of such a column is not NULL
\*   hasWatermark:  self.watermarks holds a last_timestamp for the table
SourceTables ==
  {f \in [describeFails : BOOLEAN, rows : RowCounts, hasTs : BOOLEAN,
          hasData : BOOLEAN, hasWatermark : BOOLEAN] :
     /\ f.describeFails => (f.rows = 0 /\ ~f.hasTs)
     /\ f.hasData => (f.hasTs /\ f.rows > 0)
     /\ f.hasWatermark => f.hasTs}

PlanLists == <<"incremental_extraction", "full_extraction_small", "full_extraction_large">>

\* the table_info dict categorize_tables builds for a table
TableInfo(src) ==
  IF src.describeFails
  THEN [present |-> TRUE, rows |-> 0, timestamp_columns |-> FALSE]
  ELSE [present |-> TRUE, rows |-> src.rows, timestamp_columns |-> src.hasTs]

\* which of the two lists categorize_tables appends the table to
Category(src) ==
  IF ~src.describeFails /\ src.hasTs /\ src.rows > 0
  THEN "incremental_tables" ELSE "full_extraction_tables"

\* one iteration of the loop of categorize_tables
CategorizeTable(t) ==
  /\ batch.pc = "categorize"
  /\ batch.idx <= Len(SortedTables)
  /\ t = SortedTables[batch.idx]
  /\ batch' = [batch EXCEPT !.idx = @ + 1,
                            !.info[t] = TableInfo(batch.source[t]),
                            !.category[t] = Category(batch.source[t])]
  /\ UNCHANGED <<extractVars, allVars, applyVars, doc, gcs, ing, srcTable, conn>>

\* the plan list create_extraction_plan puts a table in
PlanListOf(category, info, max_full_table_size) ==
  IF category = "incremental_tables" THEN "incremental_extraction"
  ELSE IF info.rows = 0 THEN "skipped_tables"
  ELSE IF info.rows <= max_full_table_size THEN "full_extraction_small"
  ELSE "full_extraction_large"

CreateExtractionPlan ==
  /\ batch.pc = "categorize"
  /\ batch.idx > Len(SortedTables)
  /\ batch' = [batch EXCEPT
                 !.pc = "extract",
                 !.phase = 1,
                 !.planList = [t \in Tables |->
                                 PlanListOf(batch.category[t], batch.info[t],
                                            batch.max_full_table_size)]]
  /\ UNCHANGED <<extractVars, allVars, applyVars, doc, gcs, ing, srcTable, conn>>

\* the limit of the full branch, applied to every table
LimitOfAlways(rows) == LargeTableLimit

\* the limit extract_table_safe passes in its full branch
LimitOf(rows) == IF rows > LargeTableRows THEN LargeTableLimit ELSE NoLimit

\* extract_table_safe: the branch taken and the limit passed on
SafeCall(info, extraction_type) ==
  IF extraction_type = "incremental" \/ (extraction_type = "auto" /\ info.timestamp_columns)
  THEN [extraction_type |-> "incremental", limit |-> NoLimit]
  ELSE [extraction_type |-> "full", limit |-> LimitOf(info.rows)]

\* get_incremental_data: the mode of the query for this table
QueryIsIncremental(src) ==
  IsIncremental(IF src.hasTs /\ src.hasData THEN "updated_at" ELSE NoCol,
                IF src.hasWatermark THEN Ts(1) ELSE NoneVal)

\* run_batch_extraction calls extract_table_safe for a table of the phase
ExtractTableSafe(t) ==
  /\ batch.pc = "extract"
  /\ batch.phase <= Len(PlanLists)
  /\ batch.planList[t] = PlanLists[batch.phase]
  /\ ~batch.call[t].called
  /\ LET call == SafeCall(batch.info[t],
                          IF batch.phase = 1 THEN "incremental" ELSE "full")
     IN batch' = [batch EXCEPT
                    !.call[t] = [called |-> TRUE,
                                 extraction_type |-> call.extraction_type,
                                 limit |-> call.limit,
                                 is_incremental |-> QueryIsIncremental(batch.source[t])]]
  /\ UNCHANGED <<extractVars, allVars, applyVars, doc, gcs, ing, srcTable, conn>>

\* the phase's tables are all done: the next phase, then the end of the run
NextPhase ==
  /\ batch.pc = "extract"
  /\ batch.phase <= Len(PlanLists)
  /\ \A t \in Tables :
       batch.planList[t] = PlanLists[batch.phase] => batch.call[t].called
  /\ batch' = [batch EXCEPT !.phase = @ + 1,
                            !.pc = IF batch.phase = Len(PlanLists) THEN "done" ELSE @]
  /\ UNCHANGED <<extractVars, allVars, applyVars, doc, gcs, ing, srcTable, conn>>

InitBatch ==
  /\ ExtractIdle
  /\ maxWorkers = 1
  /\ plan = {}
  /\ AllIdle
  /\ ApplyIdle
  /\ doc = Off /\ gcs = Off /\ ing = Off /\ srcTable = Off /\ conn = Off
  /\ \E source \in [Tables -> SourceTables], size \in MaxFullTableSizes :
       batch = [pc |-> "categorize", idx |-> 1, phase |-> 0,
                max_full_table_size |-> size,
                source |-> source,
                info |-> [t \in Tables |-> [present |-> FALSE, rows |-> 0,
                                            timestamp_columns |-> FALSE]],
                category |-> [t \in Tables |-> "none"],
                planList |-> [t \in Tables |-> "none"],
                call |-> [t \in Tables |-> [called |-> FALSE, extraction_type |-> "none",
                                            limit |-> NoLimit, is_incremental |-> FALSE]]]

NextBatch ==
  \/ \E t \in Tables : CategorizeTable(t)
  \/ CreateExtractionPlan
  \/ \E t \in Tables : ExtractTableSafe(t)
  \/ NextPhase

SpecBatch == InitBatch /\ [][NextBatch]_vars

\* --------------------------- GCSToBigQueryWorker.run_advanced_ingestion
MaxRequested == 2

\* tables_to_process: the lists of at most MaxRequested table names
RECURSIVE RequestedLists(_)
RequestedLists(n) ==
  IF n = 0 THEN {<<>>}
  ELSE LET shorter == RequestedLists(n - 1)
       IN shorter \cup {Append(l, t) : l \in {x \in shorter : Len(x) = n - 1},
                                       t \in Tables}

\* what one iteration meets: the configured strategy ("absent" when
\* table_strategies has none), whether the day has files, and the step that
\* raises ("staging": load_staging_from_uris, "apply": the apply_* call)
IngInputs ==
  LET strategy_types == Strategies \cup {"unknown"}
  IN {[strategy |-> "absent", files |-> FALSE, raises |-> "none"]}
     \cup {[strategy |-> st, files |-> FALSE, raises |-> "none"] : st \in strategy_types}
     \cup {[strategy |-> st, files |-> TRUE, raises |-> r] :
             st \in strategy_types, r \in {"none", "staging", "apply"}}

\* the entry the loop body stores in results[table_name]
IngResult(inp) ==
  IF inp.strategy = "absent"
  THEN [present |-> TRUE, success |-> FALSE, error |-> "No strategy defined",
        strategy |-> "none"]
  ELSE IF ~inp.files
  THEN [present |-> TRUE, success |-> FALSE, error |-> "No files found",
        strategy |-> "none"]
  ELSE IF inp.raises = "staging"
  THEN [present |-> TRUE, success |-> FALSE, error |-> "exception", strategy |-> "none"]
  ELSE IF inp.strategy \notin Strategies
  THEN [present |-> TRUE, success |-> FALSE, error |-> "exception", strategy |-> "none"]
  ELSE IF inp.raises = "apply"
  THEN [present |-> TRUE, success |-> FALSE, error |-> "exception", strategy |-> "none"]
  ELSE [present |-> TRUE, success |-> TRUE, error |-> "none", strategy |-> inp.strategy]

\* a loop that stops at the first table that failed
NextTableOrAbort(idx, requested, res) ==
  IF res.success THEN idx + 1 ELSE Len(requested) + 1

\* the for loop goes on to the next table whatever the result
NextTable(idx, requested, res) == idx + 1

\* one iteration of the loop of run_advanced_ingestion
ProcessTable(t) ==
  /\ ing.pc = "loop"
  /\ ing.idx <= Len(ing.requested)
  /\ t = ing.requested[ing.idx]
  /\ \E inp \in IngInputs :
       ing' = [ing EXCEPT !.input[t] = inp,
                          !.seen = @ \cup {t},
                          !.results[t] = IngResult(inp),
                          !.idx = NextTable(ing.idx, ing.requested, IngResult(inp))]
  /\ UNCHANGED <<extractVars, allVars, applyVars, doc, gcs, batch, srcTable, conn>>

\* the loop is over: results is returned
ReturnResults ==
  /\ ing.pc = "loop"
  /\ ing.idx > Len(ing.requested)
  /\ ing' = [ing EXCEPT !.pc = "done"]
  /\ UNCHANGED <<extractVars, allVars, applyVars, doc, gcs, batch, srcTable, conn>>

InitIng ==
  /\ ExtractIdle
  /\ maxWorkers = 1
  /\ plan = {}
  /\ AllIdle
  /\ ApplyIdle
  /\ doc = Off /\ gcs = Off /\ batch = Off /\ srcTable = Off /\ conn = Off
  /\ \E requested \in RequestedLists(MaxRequested) \ {<<>>} :
       ing = [pc |-> "loop", idx |-> 1, requested |-> requested, seen |-> {},
              input |-> [t \in Tables |-> [strategy |-> "absent", files |-> FALSE,
                                           raises |-> "none"]],
              results |-> [t \in Tables |-> [present |-> FALSE, success |-> FALSE,
                                             error |-> "none", strategy |-> "none"]]]

NextIng == (\E t \in Tables : ProcessTable(t)) \/ ReturnResults

SpecIng == InitIng /\ [][NextIng]_vars

\* ------------------------- ProductionBatchExtractor.run_batch_extraction
\* The run over a plan: two pooled phases, then the large tables one by one,
\* then save_watermarks. A table's task is extract_table_safe, whose stages
\* are the extraction (analysis and query) and the staging of its frame
\* (local file, upload, metadata).
MaxPlanned == 3

\* the tables get_all_tables returned, each in one list of the plan
PlannedTables == 1..MaxPlanned

\* the phase hands on as soon as its tasks have been submitted
PhaseOverSubmitted(b) ==
  \A t \in PlannedTables : b.planList[t] = PlanLists[b.phase] => b.stage[t] # "waiting"

\* the with-block of a pooled phase exits (shutdown(wait=True)) and the loop
\* over the large tables ends when every task of the phase has returned
PhaseOver(b) ==
  \A t \in PlannedTables : b.planList[t] = PlanLists[b.phase] => b.stage[t] = "finished"

\* a worker of the pool (phases 1 and 2) or the loop itself (phase 3) calls
\* extract_table_safe for a table of the phase's list
SubmitTask(t) ==
  /\ batch.pc = "running"
  /\ batch.phase <= Len(PlanLists)
  /\ batch.planList[t] = PlanLists[batch.phase]
  /\ batch.stage[t] = "waiting"
  /\ LET inFlight == {x \in PlannedTables : batch.stage[x] \in {"extract", "stage"}}
     IN Cardinality(inFlight) < (IF batch.phase = Len(PlanLists) THEN 1
                                 ELSE batch.max_workers)
  /\ batch' = [batch EXCEPT !.stage[t] = "extract", !.starts[t] = @ + 1]
  /\ UNCHANGED <<extractVars, allVars, applyVars, doc, gcs, ing, srcTable, conn>>

\* get_incremental_data has returned or raised: an empty frame and an
\* exception end the task, a frame with rows goes on to be staged
FinishExtraction(t) ==
  /\ batch.pc = "running"
  /\ batch.stage[t] = "extract"
  /\ \E next \in {"stage", "finished"} : batch' = [batch EXCEPT !.stage[t] = next]
  /\ UNCHANGED <<extractVars, allVars, applyVars, doc, gcs, ing, srcTable, conn>>

\* save_to_local_bronze, upload_to_gcs and save_extraction_metadata are over
FinishStaging(t) ==
  /\ batch.pc = "running"
  /\ batch.stage[t] = "stage"
  /\ batch' = [batch EXCEPT !.stage[t] = "finished"]
  /\ UNCHANGED <<extractVars, allVars, applyVars, doc, gcs, ing, srcTable, conn>>

EndPhase ==
  /\ batch.pc = "running"
  /\ batch.phase <= Len(PlanLists)
  /\ PhaseOver(batch)
  /\ batch' = [batch EXCEPT !.phase = @ + 1]
  /\ UNCHANGED <<extractVars, allVars, applyVars, doc, gcs, ing, srcTable, conn>>

\* self.save_watermarks() after the three phases, then the summary
SaveFinalWatermarks ==
  /\ batch.pc = "running"
  /\ batch.phase > Len(PlanLists)
  /\ batch' = [batch EXCEPT !.pc = "returned", !.saves = @ + 1]
  /\ UNCHANGED <<extractVars, allVars, applyVars, doc, gcs, ing, srcTable, conn>>

InitRun ==
  /\ ExtractIdle
  /\ maxWorkers = 1
  /\ plan = {}
  /\ AllIdle
  /\ ApplyIdle
  /\ doc = Off /\ gcs = Off /\ ing = Off /\ srcTable = Off /\ conn = Off
  /\ \E planList \in [PlannedTables ->
                        {PlanLists[i] : i \in 1..Len(PlanLists)} \cup {"skipped_tables"}],
        max_workers \in 1..MaxWorkers :
       batch = [pc |-> "running", phase |-> 1, max_workers |-> max_workers,
                planList |-> planList,
                stage |-> [t \in PlannedTables |-> "waiting"],
                starts |-> [t \in PlannedTables |-> 0],
                saves |-> 0]

NextRun ==
  \/ \E t \in PlannedTables : SubmitTask(t)
  \/ \E t \in PlannedTables : FinishExtraction(t)
  \/ \E t \in PlannedTables : FinishStaging(t)
  \/ EndPhase
  \/ SaveFinalWatermarks

SpecRun == InitRun /\ [][NextRun]_vars

\* --------------------------- get_incremental_data over a table's rows
\* A source table with a timestamp column: row i has the value ts[i] there
\* (0 is NULL). get_incremental_data is called with a limit or without one.
MaxSource == 3
MaxLimit == 2

SourceIds == 1..MaxSource

\* query += f" LIMIT {limit}" on a query without ORDER BY: any `limit` rows
AnyRows(candidates, limit) ==
  IF limit = NoLimit \/ Cardinality(candidates) <= limit THEN {candidates}
  ELSE {R \in SUBSET candidates : Cardinality(R) = limit}

\* ORDER BY timestamp_col LIMIT n: the first rows in that order
FirstRows(ts, candidates, limit) ==
  {R \in AnyRows(candidates, limit) : \A r \in R, c \in candidates \ R : ts[r] <= ts[c]}

\* the frames the query of lines 168-195 can return
QueryResult(ts, last, limit) ==
  IF ~IsIncremental("updated_at", last) THEN AnyRows(SourceIds, limit)
  ELSE IF last.val = 0
  THEN {R \in SUBSET {i \in SourceIds : ts[i] # 0} :
          limit = NoLimit \/ Cardinality(R) <= limit}
  ELSE FirstRows(ts, {i \in SourceIds : ts[i] > last.val}, limit)

\* get_incremental_data: the query, then the watermark update of lines
\* 199-213 when the frame has rows
GetIncrementalData ==
  /\ srcTable.pc = "ready"
  /\ \E limit \in {NoLimit} \cup 1..MaxLimit :
     \E R \in QueryResult(srcTable.ts, srcTable.watermark, limit) :
       srcTable' = [srcTable EXCEPT
                      !.limit = limit,
                      !.extracted = @ \cup R,
                      !.watermark = IF R # {}
                                    THEN MaxTimestamp({srcTable.ts[i] : i \in R})
                                    ELSE @]
  /\ UNCHANGED <<extractVars, allVars, applyVars, doc, gcs, ing, batch, conn>>

InitLimit ==
  /\ ExtractIdle
  /\ maxWorkers = 1
  /\ plan = {}
  /\ AllIdle
  /\ ApplyIdle
  /\ doc = Off /\ gcs = Off /\ ing = Off /\ batch = Off /\ conn = Off
  /\ \E ts \in [SourceIds -> TsVals] :
       /\ \E i \in SourceIds : ts[i] # 0
       /\ srcTable = [pc |-> "ready", ts |-> ts, limit |-> NoLimit, extracted |-> {},
                      watermark |-> NoneVal]

NextLimit == GetIncrementalData

SpecLimit == InitLimit /\ [][NextLimit]_vars

\* ------------------------------------------ source-database connections
\* The threads of a production run: 0 is the main thread (get_all_tables,
\* categorize_tables); 1..MaxWorkers are the pool's workers, each running
\* extract_table_incremental (analyze_table_structure, then
\* get_incremental_data) for one table at a time.
Threads == 0..MaxWorkers

\* one connection per operation: two of the main thread, two per table
ConnIds == 1..(2 + 2 * MaxPlanned)

\* executor.submit(self.extract_table_safe, ...): an idle worker takes the
\* next table and enters analyze_table_structure
SubmitTable(w) ==
  /\ conn.pc = "running"
  /\ conn.phase = "extract"
  /\ w # 0
  /\ conn.step[w] = "idle"
  /\ conn.todo > 0
  /\ conn' = [conn EXCEPT !.todo = @ - 1,
                          !.op[w] = "analyze_table_structure",
                          !.step[w] = "connect",
                          !.raised[w] = FALSE]
  /\ UNCHANGED <<extractVars, allVars, applyVars, doc, gcs, ing, batch, srcTable>>

\* connection = self.get_mysql_connection(), before the try: pymysql.connect
\* returns a new connection or raises
GetMysqlConnection(w) ==
  /\ conn.pc = "running"
  /\ conn.step[w] = "connect"
  /\ \/ /\ conn.opened + 1 \in ConnIds
        /\ conn' = [conn EXCEPT !.opened = @ + 1,
                                !.open = @ \cup {conn.opened + 1},
                                !.held[w] = @ \cup {conn.opened + 1},
                                !.connection[w] = conn.opened + 1,
                                !.step[w] = "try"]
     \/ conn' = [conn EXCEPT !.step[w] = "return", !.raised[w] = TRUE]
  /\ UNCHANGED <<extractVars, allVars, applyVars, doc, gcs, ing, batch, srcTable>>

\* the body of the try block: the operation's statements run on its own
\* connection and either complete or raise
Execute(w) ==
  /\ conn.pc = "running"
  /\ conn.step[w] = "try"
  /\ \E raises \in BOOLEAN :
       conn' = [conn EXCEPT !.users[conn.connection[w]] = @ \cup {w},
                            !.raised[w] = raises,
                            !.step[w] = "finally"]
  /\ UNCHANGED <<extractVars, allVars, applyVars, doc, gcs, ing, batch, srcTable>>

\* a close that runs on the success path only
ConnectionCloseOnSuccess(w) ==
  /\ conn.pc = "running"
  /\ conn.step[w] = "finally"
  /\ conn' = IF conn.raised[w]
             THEN [conn EXCEPT !.step[w] = "return"]
             ELSE [conn EXCEPT !.open = @ \ {conn.connection[w]},
                               !.held[w] = @ \ {conn.connection[w]},
                               !.step[w] = "return"]
  /\ UNCHANGED <<extractVars, allVars, applyVars, doc, gcs, ing, batch, srcTable>>

\* finally: connection.close()
ConnectionClose(w) ==
  /\ conn.pc = "running"
  /\ conn.step[w] = "finally"
  /\ conn' = [conn EXCEPT !.open = @ \ {conn.connection[w]},
                          !.held[w] = @ \ {conn.connection[w]},
                          !.step[w] = "return"]
  /\ UNCHANGED <<extractVars, allVars, applyVars, doc, gcs, ing, batch, srcTable>>

\* the operation returns to its caller, or its exception reaches the caller:
\*   main(): get_all_tables, then categorize_tables, then the extraction; an
\*           exception of either ends the run
\*   extract_table_incremental: analyze_table_structure, then
\*           get_incremental_data; an exception of either is caught and the
\*           table fails
OperationOver(w) ==
  /\ conn.pc = "running"
  /\ conn.step[w] = "return"
  /\ conn' =
       IF w = 0
       THEN IF conn.raised[w]
            THEN [conn EXCEPT !.pc = "finished", !.step[w] = "idle"]
            ELSE IF conn.op[w] = "get_all_tables"
                 THEN [conn EXCEPT !.op[w] = "categorize_tables", !.step[w] = "connect"]
                 ELSE [conn EXCEPT !.phase = "extract", !.step[w] = "idle"]
       ELSE IF conn.raised[w]
            THEN [conn EXCEPT !.failed = @ + 1, !.step[w] = "idle"]
            ELSE IF conn.op[w] = "analyze_table_structure"
                 THEN [conn EXCEPT !.op[w] = "get_incremental_data", !.step[w] = "connect"]
                 ELSE [conn EXCEPT !.step[w] = "idle"]
  /\ UNCHANGED <<extractVars, allVars, applyVars, doc, gcs, ing, batch, srcTable>>

\* every future of the run has completed
RunOver ==
  /\ conn.pc = "running"
  /\ conn.phase = "extract"
  /\ conn.todo = 0
  /\ \A w \in Threads : conn.step[w] = "idle"
  /\ conn' = [conn EXCEPT !.pc = "finished"]
  /\ UNCHANGED <<extractVars, allVars, applyVars, doc, gcs, ing, batch, srcTable>>

InitConn ==
  /\ ExtractIdle
  /\ maxWorkers = 1
  /\ plan = {}
  /\ AllIdle
  /\ ApplyIdle
  /\ doc = Off /\ gcs = Off /\ ing = Off /\ batch = Off /\ srcTable = Off
  /\ \E tables \in 0..MaxPlanned :
       conn = [pc |-> "running", phase |-> "tables", todo |-> tables,
               opened |-> 0, open |-> {}, failed |-> 0,
               held |-> [w \in Threads |-> {}],
               connection |-> [w \in Threads |-> 0],
               users |-> [c \in ConnIds |-> {}],
               op |-> [w \in Threads |-> IF w = 0 THEN "get_all_tables" ELSE "none"],
               step |-> [w \in Threads |-> IF w = 0 THEN "connect" ELSE "idle"],
               raised |-> [w \in Threads |-> FALSE]]

NextConn ==
  \/ \E w \in Threads :
       \/ SubmitTable(w)
       \/ GetMysqlConnection(w)
       \/ Execute(w)
       \/ ConnectionClose(w)
       \/ OperationOver(w)
  \/ RunOver

SpecConn == InitConn /\ [][NextConn]_vars

\* ------------------------------------------------------------------ claims
\* e holds a real timestamp (not None, not NaT)
HasValue(e) == e.present /\ e.last_timestamp.kind # "none" /\ e.last_timestamp.val # 0

\* entry b is not below entry a: a value is never lost or lowered
NotBelow(a, b) ==
  HasValue(a) => HasValue(b) /\ b.last_timestamp.val >= a.last_timestamp.val

\* C1: the stored watermark of a table never decreases: within a process
\* no step lowers the in-memory last_timestamp, and the mapping a run is
\* about to save is never below the mapping the file holds.
C1_MemoryAboveFile ==
  (proc = "loaded" /\ wmFile.state = "ok") =>
     \A t \in Tables : NotBelow(wmFile.data[t], watermarks[t])

C1_WatermarkNeverDecreases ==
  /\ []C1_MemoryAboveFile
  /\ [][\A t \in Tables :
          (proc # "idle" /\ proc' # "idle") =>
             NotBelow(watermarks[t], watermarks'[t])]_vars

C1_Witness ==
  \E t \in Tables :
    /\ run >= 2
    /\ wmFile.state = "ok"
    /\ HasValue(wmFile.data[t])
    /\ wmFile.data[t].last_extraction = run
    /\ wmFile.data[t].extraction_type = "incremental"
    /\ wmFile.data[t].last_timestamp.val = MaxTs

\* the entry of t was written by the extraction of the current run
WrittenThisRun(e) == e.present /\ e.last_extraction = run

\* C2: a table's watermark entry is modified only after the rows of that
\* extraction have been written as a staged artifact: an entry written by
\* the current run always has its artifact on disk or in the bucket.
C2_WatermarkOnlyAfterStaged ==
  \A t \in Tables :
    (proc # "idle" /\ WrittenThisRun(watermarks[t])) => artifact[t] # "none"

\* C3: when the timestamp_column of the stored watermark differs from the
\* column selected in this run, the extraction is a full extraction.
C3_ColumnMismatchIsFull ==
  \A t \in Tables :
    (/\ pc[t] = "wm_check"
     /\ watermarks[t].present
     /\ Truthy(watermarks[t].last_timestamp)
     /\ watermarks[t].timestamp_column # bestCol[t]) => ~isIncr[t]

\* C4: get_incremental_data on a table with no entry, or no last_timestamp,
\* in the watermark store performs a full extraction, whatever the analysis
\* selected.
C4_NoWatermarkIsFull ==
  [][\A t \in Tables :
       (/\ pc[t] = "extract"
        /\ pc'[t] # "extract"
        /\ ~Truthy(GetLastTimestamp(watermarks, t))) => ~isIncr'[t]]_vars

C4_Witness ==
  \E t \in Tables :
    /\ pc[t] = "wm_check"
    /\ bestCol[t] # NoCol
    /\ ~watermarks[t].present
    /\ df[t] # {}
    /\ ~isIncr[t]

\* C5: in a batch run in which the extraction of exactly one table raises,
\* every other table is still attempted and has its own result entry, and
\* exactly the raising table is marked failed (extract_all_tables).
C5_ExactlyRaisedMarkedFailed ==
  (/\ allIdx > Len(SortedTables)
   /\ Cardinality({t \in Tables : allInput[t].raiseAt # "none"}) = 1) =>
     \A t \in Tables :
       /\ allInput[t].seen
       /\ allResults[t].present
       /\ MarkedFailed(allResults[t]) <=> allInput[t].raiseAt # "none"

\* C6: applying the same staged table twice in a row through a merge
\* strategy or through replace-partition with a fixed load day leaves the
\* destination table as one application left it, for every destination.
C6_TwiceSameAsOnce == applyCount >= 2 => dest = destOnce

\* the staged tables whose key column holds no NULL
StagedKeysNotNull == \A r \in Rows : staging[r] > 0 => r.pk # NullKey

C6_TwiceSameAsOnceNotNull ==
  (StagedKeysNotNull /\ applyCount >= 2) => dest = destOnce

\* C7: persisting the watermark store is atomic with respect to crashes:
\* the watermark file is never left truncated or partial.
C7_FileNeverTruncated == wmFile.state # "truncated"

\* C8: concurrent pool workers, each updating the shared mapping for its own
\* table, lose or corrupt no update: an entry changes only by a write of its
\* table's worker, and from that write on it is exactly what that worker
\* wrote, whatever the other workers do meanwhile.
C8_EntryIsOwnWrite ==
  \A t \in Tables :
    pc[t] \in {"save_local", "upload", "metadata"} /\ UpdatesWatermark(bestCol[t], df[t])
       => watermarks[t] = NewEntry(bestCol[t], df[t], isIncr[t], run)

C8_NoLostUpdate ==
  /\ []C8_EntryIsOwnWrite
  /\ [][\A t \in Tables :
          (proc = "loaded" /\ watermarks'[t] # watermarks[t]) =>
             \/ pc[t] = "wm_insert" /\ watermarks'[t] = EmptyDict
             \/ /\ pc[t] = "wm_update"
                /\ watermarks'[t] = NewEntry(bestCol[t], df[t], isIncr[t], run)]_vars

C8_Witness ==
  \E t1, t2 \in Tables :
    /\ t1 # t2
    /\ pc[t1] = "wm_update"
    /\ watermarks[t1] = EmptyDict
    /\ pc[t2] = "save_local"
    /\ WrittenThisRun(watermarks[t2])

\* C9: when the upload of a table's artifact fails, the table is reported
\* as failed and its watermark entry is the one from before the run.
C9_UploadFailureKeepsWatermark ==
  \A t \in Tables :
    (pc[t] = "done" /\ uploadFailed[t]) =>
       /\ result[t] = "failed"
       /\ ~WrittenThisRun(watermarks[t])

\* C10: when the warehouse-side load or merge of a table fails, the table
\* is marked failed and its persisted watermark has not been advanced by the
\* extraction that produced the artifact.
C10_IngestFailureKeepsWatermark ==
  \A t \in Tables :
    ingest[t] = "failed" =>
       ~(wmFile.state = "ok" /\ WrittenThisRun(wmFile.data[t]))

\* the documenter has returned an analysis built from the catalog's answer
DocAnalysed == doc.pc \in {"analyzed", "again"} /\ doc.lookup # "query_error"

\* C11: the incremental_score is the sum, from 0, of 50 for a timestamp
\* column, 30 / 20 / 10 for a watermark chosen by modification name /
\* creation name / fallback, 25 for an auto-increment column, 15 / 5 / -20 for
\* one / several / no primary-key column, and the independent table-name
\* adjustments -15, +20, +15; the orders example scores 135.
C11_ScoreIsSum ==
  DocAnalysed =>
    LET a == doc.analysis
        w == a.recommended_watermark
    IN a.incremental_score =
           (IF Len(a.timestamp_columns) > 0 THEN 50 ELSE 0)
         + (IF w = NoneName THEN 0
            ELSE IF HasKeyword(ModificationKeywords, w) THEN 30
            ELSE IF HasKeyword(CreationKeywords, w) THEN 20
            ELSE 10)
         + (IF Len(a.auto_increment_columns) > 0 THEN 25 ELSE 0)
         + (IF Len(a.primary_keys) = 1 THEN 15
            ELSE IF Len(a.primary_keys) > 1 THEN 5 ELSE 0 - 20)
         + (IF HasKeyword(ConfigKeywords, doc.table) THEN 0 - 15 ELSE 0)
         + (IF HasKeyword(HistoryKeywords, doc.table) THEN 20 ELSE 0)
         + (IF HasKeyword(TransactionKeywords, doc.table) THEN 15 ELSE 0)

\* the orders example: one auto-increment key, updated_at, a name with "fac"
C11_Witness ==
  /\ DocAnalysed
  /\ doc.lookup = "ok"
  /\ doc.table = <<"P", "i", "e", "_", "F", "a", "c">>
  /\ Len(doc.cols) = 2
  /\ Len(doc.analysis.primary_keys) = 1
  /\ Len(doc.analysis.auto_increment_columns) = 1
  /\ Len(doc.analysis.timestamp_columns) = 1
  /\ doc.analysis.recommended_watermark = <<"U", "p", "d", "a", "t", "e", "d", "_", "A", "t">>
  /\ doc.analysis.incremental_score = 135

\* C12: strategy and confidence are a function of the score alone: at least
\* 70 INCREMENTAL_PREFERRED / HIGH, 40..69 INCREMENTAL_POSSIBLE / MEDIUM,
\* 20..39 INCREMENTAL_CHALLENGING / MEDIUM, below 20 FULL_REPLACE / HIGH.
C12_StrategyByBand ==
  DocAnalysed =>
    LET score == doc.analysis.incremental_score
        found == <<doc.analysis.loading_strategy, doc.analysis.confidence>>
    IN /\ score >= 70 => found = <<"INCREMENTAL_PREFERRED", "HIGH">>
       /\ (score >= 40 /\ score <= 69) => found = <<"INCREMENTAL_POSSIBLE", "MEDIUM">>
       /\ (score >= 20 /\ score <= 39) => found = <<"INCREMENTAL_CHALLENGING", "MEDIUM">>
       /\ score < 20 => found = <<"FULL_REPLACE", "HIGH">>

C12_Witness ==
  /\ DocAnalysed
  /\ doc.analysis.incremental_score \in 40..49
  /\ doc.analysis.loading_strategy = "INCREMENTAL_POSSIBLE"

\* C13: the recommended watermark is absent exactly when there is no
\* timestamp column; otherwise it is one of the timestamp columns, a
\* modification-named one if any exists, else a creation-named one if any
\* exists, else the first timestamp column.
C13_WatermarkByPriority ==
  DocAnalysed =>
    LET ts == doc.analysis.timestamp_columns
        w == doc.analysis.recommended_watermark
        names == {ts[i].column : i \in 1..Len(ts)}
        modification == {n \in names : HasKeyword(ModificationKeywords, n)}
        creation == {n \in names : HasKeyword(CreationKeywords, n)}
    IN /\ w = NoneName <=> ts = <<>>
       /\ w # NoneName => w \in names
       /\ modification # {} => w \in modification
       /\ (modification = {} /\ creation # {}) => w \in creation
       /\ (modification = {} /\ creation = {} /\ ts # <<>>) => w = ts[1].column

\* a creation-named column comes first and the modification-named one wins
C13_Witness ==
  /\ DocAnalysed
  /\ Len(doc.analysis.timestamp_columns) >= 2
  /\ doc.analysis.timestamp_columns[1].column = <<"c", "r", "e", "a", "t", "e", "d", "_", "a", "t">>
  /\ doc.analysis.recommended_watermark = <<"U", "p", "d", "a", "t", "e", "d", "_", "A", "t">>

C15_TimestampColumnsOnce ==
  DocAnalysed =>
    LET ts == doc.analysis.timestamp_columns
        cols == FetchedColumns(doc.lookup, doc.cols)
        entries(c) == {i \in 1..Len(ts) : ts[i].column = c.name}
        byType(c) == Lower(c.data_type) \in TimestampTypes
        byName(c) == \E pattern \in timestamp_patterns :
                       Contains(Lower(pattern), Lower(c.name))
    IN \A k \in 1..Len(cols) :
         /\ Cardinality(entries(cols[k])) <= 1
         /\ (byType(cols[k]) \/ byName(cols[k])) <=> entries(cols[k]) # {}
         /\ byType(cols[k]) =>
              \A i \in entries(cols[k]) : ts[i].detection_method = "type_based"
         /\ (byName(cols[k]) /\ ~byType(cols[k])) =>
              \A i \in entries(cols[k]) : ts[i].detection_method = "name_pattern"

\* Updated_At (datetime, by type and by name) and MODIFY_DATE (by name only)
C15_Witness ==
  /\ DocAnalysed
  /\ \E i, j \in 1..Len(doc.analysis.timestamp_columns) :
       /\ doc.analysis.timestamp_columns[i] =
            [column |-> <<"U", "p", "d", "a", "t", "e", "d", "_", "A", "t">>, detection_method |-> "type_based"]
       /\ doc.analysis.timestamp_columns[j] =
            [column |-> <<"M", "O", "D", "I", "F", "Y", "_", "D", "A", "T", "E">>, detection_method |-> "name_pattern"]

\* C16: for every set of parquet artifacts written under a table's prefix by
\* the extractors' naming convention, the blob returned by
\* find_latest_gcs_file is the artifact with the latest run timestamp.
C16_LatestNameIsLatestRun ==
  (gcs.pc = "found" /\ gcs.blobs # {}) =>
    \A b \in gcs.blobs :
      b.name = gcs.latest => \A other \in gcs.blobs : other.at <= b.at

\* C17: a table whose schema lookup failed during classification is
\* reported as an error; it does not get a profile with no timestamp columns
\* and zero rows that the plan then files like an ordinary table.
C17_FailedLookupHasNoProfile ==
  batch.pc \in {"extract", "done"} =>
    \A t \in Tables :
      batch.source[t].describeFails =>
        /\ batch.info[t] # [present |-> TRUE, rows |-> 0, timestamp_columns |-> FALSE]
        /\ batch.planList[t] # "skipped_tables"

\* C18: run_advanced_ingestion returns exactly one result entry for every
\* requested table; a table with no strategy, no files, an unknown strategy
\* type, or a raising staging load or merge/replace has success = False and
\* an error, and every other table is processed with its configured strategy.
C18_OneEntryPerRequestedTable ==
  ing.pc = "done" =>
    \A t \in Tables :
      LET requested == \E i \in 1..Len(ing.requested) : ing.requested[i] = t
          inp == ing.input[t]
          res == ing.results[t]
          fails == \/ inp.strategy = "absent"
                   \/ ~inp.files
                   \/ inp.strategy = "unknown"
                   \/ inp.raises # "none"
      IN /\ res.present <=> requested
         /\ requested => t \in ing.seen
         /\ (requested /\ fails) => (~res.success /\ res.error # "none")
         /\ (requested /\ ~fails) =>
              (res.success /\ res.error = "none" /\ res.strategy = inp.strategy)

\* the first table's merge raised and the second was merged all the same
C18_Witness ==
  /\ ing.pc = "done"
  /\ Len(ing.requested) = 2
  /\ ing.input[ing.requested[1]].raises = "apply"
  /\ ing.input[ing.requested[1]].files
  /\ ing.input[ing.requested[1]].strategy = "incremental_merge"
  /\ ~ing.results[ing.requested[1]].success
  /\ ing.results[ing.requested[2]].success
  /\ ing.results[ing.requested[2]].strategy = "upsert_scd1"

\* C19: a first extraction of a table with no prior watermark that returns
\* a row with a timestamp value stores the maximum timestamp of the extracted
\* rows as last_timestamp, and an extraction that finds that value in the
\* store is incremental and returns only rows strictly above it.
C19_FirstThenIncremental ==
  [][\A t \in Tables :
       /\ (/\ pc[t] = "wm_update"
           /\ pc'[t] = "save_local"
           /\ ~isIncr[t]
           /\ df[t] \ {0} # {}) =>
            /\ watermarks'[t].present
            /\ watermarks'[t].last_timestamp = Ts(SetMax(df[t]))
       /\ (/\ pc[t] = "extract"
           /\ pc'[t] # "extract"
           /\ proc' = "loaded"
           /\ bestCol[t] # NoCol
           /\ HasValue(watermarks[t])) =>
            /\ pc'[t] # "done" => isIncr'[t]
            /\ \A v \in df'[t] : v > watermarks[t].last_timestamp.val]_vars

\* the second run's query found the value the first, full run stored
C19_Witness ==
  \E t \in Tables :
    /\ run >= 2
    /\ pc[t] = "wm_check"
    /\ isIncr[t]
    /\ HasValue(watermarks[t])
    /\ watermarks[t].extraction_type = "full"
    /\ watermarks[t].last_extraction = run - 1
    /\ df[t] # {}
    /\ \A v \in df[t] : v > watermarks[t].last_timestamp.val

\* C20: in a batch run a row limit is passed only to an extraction that runs
\* in full mode on a table whose row count exceeds the large-table
\* threshold; incremental extractions and full extractions of tables at or
\* below the threshold are not limited.
C20_LimitOnlyLargeFull ==
  batch.pc \in {"extract", "done"} =>
    \A t \in Tables :
      (batch.call[t].called /\ batch.call[t].limit # NoLimit) =>
        /\ ~batch.call[t].is_incremental
        /\ batch.info[t].rows > batch.max_full_table_size
        /\ batch.info[t].rows > LargeTableRows

\* a large table extracted in full with the limit, an incremental one without
C20_Witness ==
  /\ batch.pc = "done"
  /\ \E t, u \in Tables :
       /\ batch.call[t].called /\ batch.call[t].limit = LargeTableLimit
       /\ batch.call[u].called /\ batch.call[u].is_incremental
       /\ batch.info[u].rows > LargeTableRows
       /\ batch.call[u].limit = NoLimit

\* the number of rows of bag b whose key is k
KeyCount(b, k) == SumOver(b, {r \in Rows : r.pk = k})

\* the last call of apply_incremental_merge or apply_upsert_scd1 returned
MergeReturned ==
  /\ strategy \in {"incremental_merge", "upsert_scd1"}
  /\ applyCount >= 1
  /\ ~applyRaised

\* C21: when apply_incremental_merge or apply_upsert_scd1 has returned, every
\* destination row whose key equals that of a staged row carries the staged
\* row's values in all its columns (and no row of that key was added or
\* lost), every staged row whose key matches no destination row has been
\* inserted, and every destination row whose key matches no staged row is
\* still there as it was; both strategies run the same statement.
C21_MergeOverwritesInsertsKeeps ==
  MergeReturned =>
    /\ \A t, s \in Rows :
         (destBefore[t] > 0 /\ staging[s] > 0 /\ Matches(t, s)) =>
           /\ \A r \in Rows :
                (dest[r] > 0 /\ r.pk = t.pk) => (r.val = s.val /\ r.day = s.day)
           /\ KeyCount(dest, t.pk) = KeyCount(destBefore, t.pk)
    /\ \A s \in Rows :
         (staging[s] > 0 /\ ~\E t \in Rows : destBefore[t] > 0 /\ Matches(t, s)) =>
           dest[s] = destBefore[s] + staging[s]
    /\ \A t \in Rows :
         (destBefore[t] > 0 /\ ~\E s \in Rows : staging[s] > 0 /\ Matches(t, s)) =>
           dest[t] = destBefore[t] + staging[t]

\* a merge has returned after overwriting a row with different values,
\* inserting a staged row that matched nothing and keeping a row that no
\* staged row matched
C21_Witness ==
  /\ MergeReturned
  /\ applyCount = 1
  /\ \E t, s \in Rows :
       /\ destBefore[t] > 0 /\ staging[s] > 0 /\ Matches(t, s) /\ t # s
       /\ dest[s] > 0 /\ dest[t] = 0
  /\ \E s \in Rows :
       /\ staging[s] > 0 /\ destBefore[s] = 0 /\ dest[s] > 0
       /\ ~\E t \in Rows : destBefore[t] > 0 /\ Matches(t, s)
  /\ \E t \in Rows :
       /\ destBefore[t] > 0 /\ dest[t] > 0
       /\ ~\E s \in Rows : staging[s] > 0 /\ Matches(t, s)

\* C22: when apply_replace_partition for the load day has returned, the
\* destination rows of the load day's partition are exactly the staged rows
\* (all tagged with the load day), and the rows of every other partition
\* are the ones that were there before the call.
C22_PartitionReplacedOthersKept ==
  (strategy = "replace_partition" /\ applyCount >= 1 /\ ~applyRaised) =>
    \A r \in Rows :
      /\ r.day = LoadDay => dest[r] = staging[r]
      /\ r.day # LoadDay => dest[r] = destBefore[r]

\* a partition has been replaced: a row of the load day that was not staged
\* again is gone, a staged row is there, a row of another day was kept
C22_Witness ==
  /\ strategy = "replace_partition"
  /\ applyCount = 1
  /\ \E r \in Rows : r.day = LoadDay /\ destBefore[r] > 0 /\ staging[r] = 0 /\ dest[r] = 0
  /\ \E r \in Rows : r.day = LoadDay /\ staging[r] > 0 /\ dest[r] = staging[r]
  /\ \E r \in Rows : r.day # LoadDay /\ destBefore[r] > 0 /\ dest[r] = destBefore[r]

\* the step in which the process calls load_watermarks
LoadStep == proc = "idle" /\ proc' = "loaded"

\* the step in which get_incremental_data runs the query of table t
QueryStep(t) == pc[t] = "extract" /\ pc'[t] # "extract" /\ proc' = "loaded"

\* C23: load_watermarks does not fail: with the watermark file missing or
\* unreadable the process goes on with an empty mapping; a table's entry
\* appears, while the process runs, only by that table's own extraction,
\* and a table without an entry is extracted in full. So every table's next extraction after such
\* a load is a full one.
C23_UnusableFileLoadsEmptyThenFull ==
  [][/\ (LoadStep /\ wmFile.state # "ok") => watermarks' = EmptyMap
     /\ \A t \in Tables :
          /\ (proc = "loaded" /\ ~watermarks[t].present /\ watermarks'[t].present) =>
               pc[t] = "wm_insert"
          /\ (QueryStep(t) /\ ~watermarks[t].present /\ pc'[t] # "done") =>
               ~isIncr'[t]]_vars

\* a process that found the file truncated has queried a table that has a
\* timestamp column, in full
C23_Witness ==
  /\ proc = "loaded"
  /\ wmFile.state = "truncated"
  /\ watermarks = EmptyMap
  /\ \E t \in Tables :
       pc[t] = "wm_check" /\ bestCol[t] # NoCol /\ ~isIncr[t] /\ df[t] # {}

\* C24: every table that create_extraction_plan put in full_extraction_large
\* is extracted with the large_table_limit row cap, whatever
\* max_full_table_size the plan was made with.
C24_LargeListIsCapped ==
  (batch.pc \in {"extract", "done"}) =>
    \A t \in Tables :
      (batch.planList[t] = "full_extraction_large" /\ batch.call[t].called) =>
        batch.call[t].limit = LargeTableLimit

\* the tables of a list of the plan
ListOf(name) == {t \in PlannedTables : batch.planList[t] = name}

RunInFlight == {t \in PlannedTables : batch.stage[t] \in {"extract", "stage"}}

\* the order of the phases, the bound of the pool, the single start of each
\* table and the single save at the end
RunOrdered ==
  /\ (\E t \in ListOf("full_extraction_small") : batch.stage[t] # "waiting") =>
       \A i \in ListOf("incremental_extraction") : batch.stage[i] = "finished"
  /\ (\E t \in ListOf("full_extraction_large") : batch.stage[t] # "waiting") =>
       \A s \in ListOf("full_extraction_small") \cup ListOf("incremental_extraction") :
         batch.stage[s] = "finished"
  /\ Cardinality(RunInFlight \cap ListOf("full_extraction_large")) <= 1
  /\ Cardinality(RunInFlight) <= batch.max_workers
  /\ \A t \in PlannedTables :
       /\ batch.starts[t] <= 1
       /\ batch.stage[t] = "waiting" <=> batch.starts[t] = 0
       /\ batch.planList[t] = "skipped_tables" => batch.starts[t] = 0
  /\ batch.saves = (IF batch.pc = "returned" THEN 1 ELSE 0)
  /\ batch.saves = 1 =>
       \A t \in PlannedTables :
         batch.planList[t] # "skipped_tables" =>
           (batch.starts[t] = 1 /\ batch.stage[t] = "finished")

\* C25: in run_batch_extraction every incremental task has finished before
\* a small-full task starts, every small-full task has finished before a
\* large table starts, at most one large table is in flight, at most
\* max_workers tables are in flight, no table is started twice and every
\* planned table has been started once when the run returns,
\* save_watermarks runs once, when every planned table has finished, and a
\* table's staging begins only from its completed extraction.
C25_PhasesPoolOnceSave ==
  /\ [](batch.pc \in {"running", "returned"} => RunOrdered)
  /\ [][\A t \in PlannedTables :
          (batch.pc = "running" /\ batch'.stage[t] = "stage" /\ batch.stage[t] # "stage") =>
            batch.stage[t] = "extract"]_vars

\* a run over a plan with a table in each list has returned, with two
\* workers in the pool
C25_Witness ==
  /\ batch.pc = "returned"
  /\ batch.max_workers = 2
  /\ ListOf("incremental_extraction") # {}
  /\ ListOf("full_extraction_small") # {}
  /\ ListOf("full_extraction_large") # {}

\* C26: an analysis whose loading_strategy is INCREMENTAL_PREFERRED or
\* INCREMENTAL_POSSIBLE names a recommended_watermark column.
C26_IncrementalHasWatermark ==
  (doc.pc \in {"analyzed", "again"}
   /\ doc.analysis.loading_strategy \in {"INCREMENTAL_PREFERRED", "INCREMENTAL_POSSIBLE"}) =>
    doc.analysis.recommended_watermark # NoneName

\* C27: once get_incremental_data has updated the watermark, every row of
\* the table that has a timestamp and was not extracted so far lies
\* strictly above the stored watermark.
C27_NoRowBelowWatermarkLeft ==
  (srcTable.pc = "ready" /\ srcTable.watermark.kind # "none") =>
    \A i \in SourceIds :
      (srcTable.ts[i] # 0 /\ i \notin srcTable.extracted) =>
        srcTable.ts[i] > srcTable.watermark.val

\* C28: an extraction whose query returns no rows ends the table's task as
\* succeeded and leaves the watermark mapping, the watermark file and the
\* artifacts as they were (nothing is staged, no metadata is written);
\* only a frame with rows goes on to the watermark update and the staging.
C28_EmptyExtractionChangesNothing ==
  [][\A t \in Tables :
       /\ (QueryStep(t) /\ pc'[t] = "done" /\ result'[t] = "success") =>
            /\ watermarks' = watermarks
            /\ wmFile' = wmFile
            /\ artifact' = artifact
            /\ artifact[t] = "none"
       /\ (QueryStep(t) /\ pc'[t] # "done") => df'[t] # {}
       /\ (pc[t] \in {"save_local", "upload", "metadata"} /\ proc = "loaded") =>
            df[t] # {}]_vars

\* a table that had a watermark from an earlier run was extracted again,
\* returned no rows and is reported as succeeded, its entry untouched
C28_Witness ==
  \E t \in Tables :
    /\ proc = "loaded"
    /\ pc[t] = "done"
    /\ result[t] = "success"
    /\ artifact[t] = "none"
    /\ watermarks[t].present
    /\ run >= 2

\* C29: when the advanced ingestion lists a day, every artifact an extractor
\* uploaded for the table on that day is among the listed URIs, so a table
\* extracted that day is not reported as 'No files found'.
C29_UploadedIsListed ==
  gcs.pc = "listed" =>
    \A b \in gcs.blobs :
      9 + ((b.at - 1) \div 2) = gcs.day => b.name \in gcs.uris

\* C30: every connection a table operation opened is closed once the
\* operation has returned or raised, no connection is used by more than one
\* thread, each thread holds at most one open connection at any time, and
\* after the run, failed tables included, no connection is open.
C30_ConnectionsClosedAndUnshared ==
  conn.pc \in {"running", "finished"} =>
    /\ \A w \in Threads :
         /\ Cardinality(conn.held[w]) <= 1
         /\ conn.step[w] \in {"idle", "connect", "return"} => conn.held[w] = {}
    /\ \A c \in ConnIds : Cardinality(conn.users[c]) <= 1
    /\ conn.open = UNION {conn.held[w] : w \in Threads}
    /\ conn.pc = "finished" => conn.open = {}

\* a run is over with a failed table, its connections were opened and used by
\* the main thread and by both workers, and none is open
C30_Witness ==
  /\ conn.pc = "finished"
  /\ conn.failed > 0
  /\ conn.open = {}
  /\ \A w \in Threads : \E c \in ConnIds : conn.users[c] = {w}

TypeOK ==
  /\ run \in 0..MaxRuns
  /\ proc \in {"idle", "loaded", "saving", "saved"}
  /\ wmFile.state \in {"absent", "truncated", "ok"}
  /\ \A t \in Tables : df[t] \subseteq TsVals

====
